---- MODULE Spec2Model ----
(***************************************************************************)
(* Job orchestration of the greenspace detection platform:                 *)
(*   greenspace-app/src/lib/processing-store.ts      the job Registry      *)
(*   greenspace-app/src/app/api/process/route.ts     POST, the driver,     *)
(*                                                   the pool, the worker  *)
(*   greenspace-app/src/app/api/status/[id]/route.ts GET (memory only)     *)
(*   unnamed/part_009                                GET (file fallback)   *)
(*                                                                         *)
(* Spec      follows one job from POST through processInBackground: its    *)
(*           in-memory snapshot, the pools and the workers.  The driver    *)
(*           only ever writes status.json, inside try/catch, so in Spec a  *)
(*           status write is an await and nothing more.                    *)
(* SpecStore follows the Registry, the status files and the two GET        *)
(*           handlers over several job ids and process restarts.           *)
(* SpecRegistry calls the functions of processing-store.ts in any order.   *)
(* SpecPersist follows the updates of a job and the writes of status.json. *)
(* SpecStream  follows one push stream (status/stream/[id]/route.ts) and   *)
(*           the job it is about; SpecStreamLive adds fairness.            *)
(* SpecLimit determines the pool limit from CPU count and environment.     *)
(* SpecChange  aggregates monthly values into means and percent change.    *)
(* SpecPool    follows one call of runWithConcurrency; SpecPoolLive adds   *)
(*           fairness.                                                     *)
(* SpecBatch   follows a batch job over several cities; SpecBatchMonths a  *)
(*           batch job of one city whose months differ in value.           *)
(* SpecProgress maps the PROGRESS lines of a worker to the job's progress. *)
(* SpecWorker  follows one call of runPythonScript.                        *)
(* SpecAnnual  follows an annual job whose months differ in value.         *)
(* SpecSingle  follows a single-range job whose worker prints any integer. *)
(* SpecRetention follows the Registry of a process over more than a day.   *)
(* SpecDurable is SpecPersist with every write succeeding.                 *)
(* SpecTicks   follows a push stream whose sampling ticks overlap.         *)
(* SpecJobLive is the driver of one job under fairness.                    *)
(***************************************************************************)
EXTENDS Integers, Sequences, FiniteSets, TLC

VARIABLES
    mem,        \* globalProcessingJobs: job id -> snapshot, or NoJob
    file,       \* public/outputs/<id>/status.json: job id -> JSON payload, or NoFile
    created,    \* ids for which POST has created a job (history)
    pc,         \* position of processInBackground (and of POST before it)
    cfg,        \* the request: mode, pool limit, number of cities
    cityIdx,    \* batch mode: index of the city being processed
    unit,       \* unit id -> state of its runPythonScript execution
    pool,       \* role -> index / active / resolved of its runWithConcurrency
    monthly,    \* role -> values collected for the role's mean
    writes,     \* job id -> the fs.writeFile calls in flight: who awaits, payload
    summaries,  \* batchSummaries of the driver
    thrown,     \* the error caught by processInBackground, or NoError
    completedMonths, \* annual mode: counter of completed month units
    previews,   \* annual mode: role -> the previews array of runYearMonthly
    handlers,   \* script -> number of stdout handlers suspended on their await
    resp,       \* last response of a POST or GET handler
    stream,     \* one push stream: its id, lastSent, pending samples, frames
    call        \* last call of a function checked on its own, with its result

vars == <<mem, file, created, pc, cfg, cityIdx, unit, pool, monthly, writes,
          summaries, thrown, completedMonths, previews, handlers, resp,
          stream, call>>

----------------------------------------------------------------------------
(* Bounds *)

Months == 2          \* months per role (the program has 12)
MaxN == 2            \* pool limits tried: 1..MaxN (the program allows 1..12)
MaxHandlers == 1     \* stdout handlers suspended on a status write at once
MaxWrites == 1       \* SpecStore: stdout handlers' writes of one status.json in flight
MaxPreviews == 1     \* SpecRegistry: previews appended to one job
MaxSamples == 1      \* SpecStream: snapshot() calls of a stream awaiting their file read
MaxCpu == 8          \* SpecLimit: os.cpus().length ranges over 0..MaxCpu
MaxOverride == 13    \* SpecLimit: numeric overrides range over -1..MaxOverride
MaxLen == 2          \* SpecChange: monthly lists of 0..MaxLen arbitrary values
MaxTasks == 3        \* SpecPool: task lists of 0..MaxTasks factories
MaxStderr == 3       \* SpecWorker: chunks of standard error of one worker

JobIds == {"j1", "j2"}
Roles == {"baseline", "compare"}
Modes == {"single", "annual", "batch"}
ProgressInputs == {0, 100}      \* integers printed after PROGRESS:
VegValues == {30}               \* vegetation_percentage of a month
CityCounts == {1}               \* config.cities.length of a batch request
BatchCityCounts == {1, 2}       \* SpecBatch: config.cities.length
\* SpecBatch: the units of a city whose worker may fail
BatchFailing == {<<"baseline", 1>>, <<"change", 1>>}
Thumbnails == {TRUE}            \* does collectResults find an image to preview
Errors == {"mkdir", "start", "exit"}

\* request bodies: is config.city given, config.cities.length (0 also when
\* the list is absent), config.annualMode
Bodies == [city : BOOLEAN, cities : {0} \cup CityCounts, annualMode : BOOLEAN]

NoJob == [absent |-> "job"]          \* Map.get(id) === undefined
NoFile == [absent |-> "file"]        \* status.json does not exist
NoWrite == [absent |-> "write"]      \* no fs.writeFile in flight
NoError == "NoError"
Undefined == [undefined |-> TRUE]    \* the value undefined of a result member

SingleUnit == <<"single", 1>>
ChangeUnit == <<"change", 1>>
MonthUnits == Roles \X (1..Months)
UnitIds == {SingleUnit, ChangeUnit} \cup MonthUnits
Scripts == {"satellite_processor_fixed.py", "generate_change_visualization.py"}

----------------------------------------------------------------------------
(* Arithmetic and record helpers *)

Min(a, b) == IF a < b THEN a ELSE b
Max(a, b) == IF a > b THEN a ELSE b

\* Math.round(n / d) for n >= 0, d > 0
MathRound(n, d) == (2 * n + d) \div (2 * d)

RECURSIVE SumVeg(_)
SumVeg(s) == IF s = <<>> THEN 0 ELSE Head(s).veg + SumVeg(Tail(s))

\* object spread { ...a, ...b }
Spread(a, b) ==
    [k \in DOMAIN a \cup DOMAIN b |-> IF k \in DOMAIN b THEN b[k] ELSE a[k]]

----------------------------------------------------------------------------
(* processing-store.ts *)

\* variant: a lookup that answers with another job when the id is unknown
getProcessingJobOrOther(m, id) ==
    IF m[id] # NoJob \/ \A j \in JobIds : m[j] = NoJob
    THEN m[id]
    ELSE m[CHOOSE j \in JobIds : m[j] # NoJob]

getProcessingJob(m, id) == m[id]

\* variant: a set that stores nothing
setProcessingJobDropped(m, id, status) == m

setProcessingJob(m, id, status) == [m EXCEPT ![id] = status]

\* variant: an update that creates the job when the id is unknown
updateProcessingJobUpsert(m, id, updates) ==
    [m EXCEPT ![id] = IF m[id] = NoJob THEN updates ELSE Spread(m[id], updates)]

\* { ...currentStatus, ...updates }: members of the partial replace the
\* stored ones (result included, as a whole), the others are kept; an
\* unknown id is left alone.
updateProcessingJob(m, id, updates) ==
    IF m[id] # NoJob
    THEN [m EXCEPT ![id] = Spread(m[id], updates)]
    ELSE m

\* globalProcessingJobs.delete(id)
deleteProcessingJob(m, id) == [m EXCEPT ![id] = NoJob]

\* JSON.stringify: a Date becomes its ISO string, and object members whose
\* value is undefined are dropped.
StringifyResult(r) ==
    [k \in {f \in DOMAIN r :
              ~(f \in {"summary", "annualComparison"} /\ r[f] = Undefined)}
        |-> r[k]]

Stringify(s) ==
    [k \in DOMAIN s |->
        CASE k \in {"startTime", "endTime"} -> s[k].date
          [] k = "result" -> StringifyResult(s[k])
          [] OTHER -> s[k]]

\* JSON.stringify(getProcessingJob(id), null, 2) as handed to fs.writeFile;
\* of an unknown id it is undefined, and fs.writeFile throws on it.
StatusPayload(m, id) == IF m[id] = NoJob THEN NoWrite ELSE Stringify(m[id])

\* status of POST: route.ts lines 25-31
InitialStatus(id) ==
    [id |-> id, status |-> "pending", progress |-> 0,
     message |-> "Initializing processing...",
     startTime |-> [date |-> "t0"]]

Terminal(s) == s \in {"completed", "failed"}

----------------------------------------------------------------------------
(* process/route.ts: pure parts *)

ScriptOf(u) ==
    IF u = ChangeUnit THEN "generate_change_visualization.py"
    ELSE "satellite_processor_fixed.py"

getBaseProgressForScript(scriptName) ==
    CASE scriptName = "download_satellite_images.py" -> 10
      [] scriptName = "preprocess_satellite_images.py" -> 40
      [] scriptName = "vegetation_highlighter.py" -> 70
      [] OTHER -> 0

getProgressRangeForScript(scriptName) ==
    CASE scriptName = "download_satellite_images.py" -> 30
      [] scriptName = "preprocess_satellite_images.py" -> 30
      [] scriptName = "vegetation_highlighter.py" -> 30
      [] OTHER -> 10

\* Math.round(baseProgress + scriptProgress * range / 100)
TotalProgress(scriptName, scriptProgress) ==
    MathRound(getBaseProgressForScript(scriptName) * 100
                + scriptProgress * getProgressRangeForScript(scriptName), 100)

\* variant: the update of a PROGRESS line also sets the status
ProgressPartialWithStatus(scriptName, scriptProgress) ==
    [status |-> "processing",
     progress |-> TotalProgress(scriptName, scriptProgress)]

\* the update of one PROGRESS line (route.ts lines 573-575)
ProgressPartial(scriptName, scriptProgress) ==
    [progress |-> TotalProgress(scriptName, scriptProgress)]

\* runWithConcurrency: the state of one call
NewPool == [index |-> 0, active |-> 0, resolved |-> FALSE]

\* number of tasks the while loop of schedule() starts
ScheduleStarts(p, limit) ==
    Max(0, Min(limit - p.active, Months - p.index))

\* variant: schedule() resolves as soon as the queue is empty, without
\* waiting for the active tasks
scheduleQueueEmpty(p, limit) ==
    IF p.index >= Months
    THEN [p EXCEPT !.resolved = TRUE]
    ELSE [p EXCEPT !.index = @ + ScheduleStarts(p, limit),
                   !.active = @ + ScheduleStarts(p, limit)]

\* schedule(): resolve when nothing is left, else start tasks up to the limit
schedule(p, limit) ==
    IF p.index >= Months /\ p.active = 0
    THEN [p EXCEPT !.resolved = TRUE]
    ELSE [p EXCEPT !.index = @ + ScheduleStarts(p, limit),
                   !.active = @ + ScheduleStarts(p, limit)]

\* the tasks schedule() has just called: each runs up to its first await
StartUnits(un, r, lo, hi) ==
    [u \in UnitIds |->
        IF u[1] = r /\ u[2] > lo /\ u[2] <= hi
        THEN [un[u] EXCEPT !.phase = "running"]
        ELSE un[u]]

\* percent of runYearMonthly (route.ts line 355); totalMonths is both roles
totalMonths == 2 * Months
CoarseProgress(done) == Min(95, MathRound(done * 95, totalMonths))

\* progress of the per-city batch update (route.ts line 257)
BatchProgress(done, cities) == Min(95, MathRound(done * 95, cities))

\* variant: the change relative to the compare mean
PercentChangeOfCompare(b, c) ==
    IF c.sum = 0 THEN [num |-> 0, den |-> 1]
    ELSE [num |-> (c.sum * b.count - b.sum * c.count) * 100,
          den |-> c.sum * b.count]

\* a mean as the fraction sum / count
\* runYearMonthly: monthly.reduce(...) / (monthly.length || 1)
AnnualMean(ms) ==
    [sum |-> SumVeg(ms), count |-> IF Len(ms) = 0 THEN 1 ELSE Len(ms)]

\* batch: avg(arr) = arr.length ? sum / arr.length : 0
BatchMean(ms) ==
    IF Len(ms) = 0 THEN [sum |-> 0, count |-> 1]
    ELSE [sum |-> SumVeg(ms), count |-> Len(ms)]

\* baseline !== 0 ? ((compare - baseline) / baseline) * 100 : 0, as a fraction
PercentChange(b, c) ==
    IF b.sum = 0 THEN [num |-> 0, den |-> 1]
    ELSE [num |-> (c.sum * b.count - b.sum * c.count) * 100,
          den |-> b.sum * c.count]

----------------------------------------------------------------------------
(* State *)

NoUnit == [phase |-> "none", veg |-> 0]
NoCfg == [id |-> "", mode |-> "", limit |-> 0, cities |-> 0]
NoResp == [handler |-> "", id |-> "", code |-> 0, body |-> NoJob]
NoPayload == [absent |-> "payload"]  \* lastSent = '', or snapshot() = null
NoStream ==
    [id |-> "", state |-> "none", lastSent |-> NoPayload, pending |-> {},
     out |-> <<>>, sample |-> NoPayload, lastData |-> NoPayload,
     waited |-> FALSE]
NoCall == [op |-> ""]
FreshUnits == [u \in UnitIds |-> NoUnit]

Init ==
    /\ mem = [i \in JobIds |-> NoJob]
    /\ file = [i \in JobIds |-> NoFile]
    /\ writes = [i \in JobIds |-> {}]
    /\ created = {}
    /\ pc = "idle"
    /\ cfg = NoCfg
    /\ cityIdx = 0
    /\ unit = FreshUnits
    /\ pool = [r \in Roles |-> NewPool]
    /\ monthly = [r \in Roles |-> <<>>]
    /\ summaries = <<>>
    /\ thrown = NoError
    /\ completedMonths = 0
    /\ previews = [r \in Roles |-> <<>>]
    /\ handlers = [sc \in Scripts |-> 0]
    /\ resp = NoResp
    /\ stream = NoStream
    /\ call = NoCall

Job == cfg.id
Running(u) == unit[u].phase = "running"
NRunning == Cardinality({u \in UnitIds : Running(u)})
Settled(u) == unit[u].phase \in {"ok", "failed"}
NHandlers == handlers["satellite_processor_fixed.py"]
               + handlers["generate_change_visualization.py"]

storeVars == <<file, writes, resp, stream, call>>

----------------------------------------------------------------------------
(* POST and the start of processInBackground *)

\* variant: a validation that lets every body through
ValidBodyAlways(config) == TRUE

\* route.ts line 14: the negation of the condition of the 400 response
ValidBody(config) == config.city \/ config.cities > 0

\* route.ts lines 111, 303, 468: the branch processInBackground takes
ModeOf(config) ==
    IF config.annualMode /\ config.cities > 0 THEN "batch"
    ELSE IF config.annualMode THEN "annual"
    ELSE "single"

\* route.ts lines 15-18
BadRequest(config) ==
    [handler |-> "POST", id |-> "", code |-> 400,
     body |-> [error |-> "City or cities are required"], request |-> config]

\* route.ts line 48
Accepted(id) ==
    [handler |-> "POST", id |-> id, code |-> 200, body |-> [processingId |-> id]]

\* route.ts lines 21-40: the job is created; POST awaits the initial persist
POST(id, mode, limit, cities) ==
    /\ pc = "idle"
    /\ id \notin created
    /\ mem' = setProcessingJob(mem, id, InitialStatus(id))
    /\ created' = created \cup {id}
    /\ cfg' = [id |-> id, mode |-> mode, limit |-> limit, cities |-> cities]
    /\ pc' = "post_persist"
    /\ UNCHANGED <<cityIdx, unit, pool, monthly, summaries, thrown,
                   completedMonths, previews, handlers, storeVars>>

\* route.ts lines 41-48 and 58-64: the initial persist settles (an error is
\* swallowed), processInBackground is called and runs up to its await of
\* fs.mkdir, and POST responds
PostPersisted ==
    /\ pc = "post_persist"
    /\ pc' = "mkdir"
    /\ resp' = Accepted(Job)
    /\ UNCHANGED <<mem, created, cfg, cityIdx, unit, pool, monthly, summaries,
                   thrown, completedMonths, previews, handlers, file, writes,
                   stream, call>>

\* variant: the catch block reports no more than 'Unknown error'
FailedPartialUnknown(err) ==
    [status |-> "failed", progress |-> 0,
     message |-> "Processing failed: Unknown error",
     endTime |-> [date |-> "t1"]]

\* the update of the catch block (route.ts lines 509-514)
FailedPartial(err) ==
    [status |-> "failed", progress |-> 0,
     message |-> "Processing failed: " \o err,
     endTime |-> [date |-> "t1"]]

\* route.ts lines 507-518: the catch block of processInBackground
Catch(err) ==
    /\ mem' = updateProcessingJob(mem, Job, FailedPartial(err))
    /\ thrown' = err
    /\ pc' = "catch_persist"

\* route.ts lines 68-72
InitPartial ==
    [status |-> "downloading", progress |-> 5,
     message |-> "Initializing satellite processing..."]

\* route.ts lines 63-79: mkdir settles; the first update, then its persist
Mkdir(ok) ==
    /\ pc = "mkdir"
    /\ IF ok
       THEN /\ mem' = updateProcessingJob(mem, Job, InitPartial)
            /\ pc' = "init_persist"
            /\ UNCHANGED thrown
       ELSE Catch("mkdir")
    /\ UNCHANGED <<created, cfg, cityIdx, unit, pool, monthly, summaries,
                   completedMonths, previews, handlers, storeVars>>

\* route.ts lines 182-185 (batch) and 387 (annual): runWithConcurrency is
\* called and its first schedule() starts tasks
StartPool(pl, r, limit) == [pl EXCEPT ![r] = schedule(NewPool, limit)]

\* both pools of a city, inside Promise.all
StartCity(limit) ==
    [unit |-> StartUnits(StartUnits(FreshUnits, "baseline", 0,
                                    schedule(NewPool, limit).index),
                         "compare", 0, schedule(NewPool, limit).index),
     pool |-> StartPool(StartPool(pool, "baseline", limit), "compare", limit)]

\* route.ts lines 80-185, 303-394, 468-486: the init persist settles and the
\* driver enters its mode, up to its next await
InitPersisted ==
    /\ pc = "init_persist"
    /\ CASE cfg.mode = "single" ->
              /\ unit' = [unit EXCEPT ![SingleUnit].phase = "running"]
              /\ pc' = "single"
              /\ UNCHANGED <<pool, cityIdx>>
         [] cfg.mode = "annual" ->
              /\ pool' = StartPool(pool, "baseline", cfg.limit)
              /\ unit' = StartUnits(unit, "baseline", 0,
                                    schedule(NewPool, cfg.limit).index)
              /\ pc' = "annual"
              /\ UNCHANGED cityIdx
         [] cfg.mode = "batch" ->
              /\ pool' = StartCity(cfg.limit).pool
              /\ unit' = StartCity(cfg.limit).unit
              /\ cityIdx' = 1
              /\ pc' = "batch"
    /\ UNCHANGED <<mem, created, cfg, monthly, summaries, thrown,
                   completedMonths, previews, handlers, storeVars>>

----------------------------------------------------------------------------
(* runPythonScript: the stdout handler *)

\* route.ts lines 558-579: a chunk of stdout arrives; the async handler runs
\* up to its first await: the update of the chunk's first PROGRESS line is
\* made and the handler is suspended on fs.writeFile.
WorkerOutput(u, p) ==
    /\ Running(u)
    /\ NHandlers < MaxHandlers
    /\ mem' = updateProcessingJob(mem, Job, ProgressPartial(ScriptOf(u), p))
    /\ handlers' = [handlers EXCEPT ![ScriptOf(u)] = @ + 1]
    /\ UNCHANGED <<created, pc, cfg, cityIdx, unit, pool, monthly,
                   summaries, thrown, completedMonths, previews, storeVars>>

\* route.ts lines 565-585: the write of a handler settles (an error is
\* swallowed) and the loop goes on to the chunk's next PROGRESS line
HandlerNextLine(sc, p) ==
    /\ handlers[sc] > 0
    /\ mem' = updateProcessingJob(mem, Job, ProgressPartial(sc, p))
    /\ UNCHANGED <<created, pc, cfg, cityIdx, unit, pool, monthly, handlers,
                   summaries, thrown, completedMonths, previews, storeVars>>

\* ... or the chunk has no further PROGRESS line and the handler returns
HandlerEnds(sc) ==
    /\ handlers[sc] > 0
    /\ handlers' = [handlers EXCEPT ![sc] = @ - 1]
    /\ UNCHANGED <<mem, created, pc, cfg, cityIdx, unit, pool, monthly,
                   summaries, thrown, completedMonths, previews, storeVars>>

----------------------------------------------------------------------------
(* The driver's continuations *)

\* variant: the driver goes on as soon as one of the two pools has resolved
AfterSettleRace(r, un, pl) ==
    LET p1 == schedule(pl[r], cfg.limit)
        un1 == StartUnits(un, r, pl[r].index, p1.index)
        pl1 == [pl EXCEPT ![r] = p1]
        p2 == schedule(NewPool, cfg.limit)
    IN  IF ~p1.resolved
        THEN [unit |-> un1, pool |-> pl1, pc |-> pc]
        ELSE IF cfg.mode = "annual" /\ r = "baseline"
        THEN [unit |-> StartUnits(un1, "compare", 0, p2.index),
              pool |-> [pl1 EXCEPT !["compare"] = p2],
              pc |-> pc]
        ELSE IF pc # "change"
        THEN [unit |-> [un1 EXCEPT ![ChangeUnit].phase = "running"],
              pool |-> pl1, pc |-> "change"]
        ELSE [unit |-> un1, pool |-> pl1, pc |-> pc]

\* route.ts lines 100-104 and what awaits the pool: results.push happened,
\* active was decremented; schedule() starts queued tasks or resolves the
\* pool, and on resolution the driver runs on to its next await.
AfterSettle(r, un, pl) ==
    LET p1 == schedule(pl[r], cfg.limit)
        un1 == StartUnits(un, r, pl[r].index, p1.index)
        pl1 == [pl EXCEPT ![r] = p1]
        p2 == schedule(NewPool, cfg.limit)
    IN  IF ~p1.resolved
        THEN [unit |-> un1, pool |-> pl1, pc |-> pc]
        ELSE IF cfg.mode = "annual" /\ r = "baseline"
        THEN [unit |-> StartUnits(un1, "compare", 0, p2.index),
              pool |-> [pl1 EXCEPT !["compare"] = p2],
              pc |-> pc]
        ELSE IF cfg.mode = "annual" \/ \A q \in Roles : pl1[q].resolved
        THEN [unit |-> [un1 EXCEPT ![ChangeUnit].phase = "running"],
              pool |-> pl1, pc |-> "change"]
        ELSE [unit |-> un1, pool |-> pl1, pc |-> pc]

\* variant: the finally callback of a task does not call schedule()
SettleMonthNoSchedule(u, un0) ==
    /\ unit' = un0
    /\ pool' = [pool EXCEPT ![u[1]].active = @ - 1]
    /\ pc' = pc

\* the task of month unit u settles (un0: the units, u's outcome recorded)
SettleMonth(u, un0) ==
    LET nxt == AfterSettle(u[1], un0, [pool EXCEPT ![u[1]].active = @ - 1])
    IN  /\ unit' = nxt.unit
        /\ pool' = nxt.pool
        /\ pc' = nxt.pc

Veg1(v) == [sum |-> v, count |-> 1]

\* route.ts lines 388-404 and 443-461: the final update of annual mode
AnnualCompletedPartial(stats) ==
    [status |-> "completed", progress |-> 100,
     message |-> "Annual comparison (monthly best) completed successfully!",
     endTime |-> [date |-> "t1"],
     result |->
       [downloadedImages |-> Len(monthly["compare"]),
        vegetationPercentage |-> AnnualMean(monthly["compare"]),
        summary |-> Undefined,
        annualComparison |->
          [baselineVegetation |-> AnnualMean(monthly["baseline"]),
           compareVegetation |-> AnnualMean(monthly["compare"]),
           percentChange |-> PercentChange(AnnualMean(monthly["baseline"]),
                                           AnnualMean(monthly["compare"]))],
        changeVisualization |-> stats,
        previews |-> previews["baseline"] \o previews["compare"]]]

RECURSIVE VegOf(_)
VegOf(ms) == IF ms = <<>> THEN <<>> ELSE <<Head(ms).veg>> \o VegOf(Tail(ms))

\* route.ts lines 187-196 and 234-253: the summary of the city just finished
CitySummary(stats) ==
    [city |-> cityIdx,
     baselineVegetation |-> BatchMean(monthly["baseline"]),
     compareVegetation |-> BatchMean(monthly["compare"]),
     percentChange |-> PercentChange(BatchMean(monthly["baseline"]),
                                     BatchMean(monthly["compare"])),
     monthlyVegBaseline |-> VegOf(monthly["baseline"]),
     monthlyVegCompare |-> VegOf(monthly["compare"]),
     changeVisualization |-> stats]

\* route.ts lines 259-270 and 283-294
BatchResult(sums) ==
    [downloadedImages |-> 0, vegetationPercentage |-> Veg1(0),
     summary |-> Undefined, annualComparison |-> Undefined,
     batchSummaries |-> sums]

\* route.ts lines 255-271: the update after a city
BatchCityPartial(sums) ==
    [status |-> "processing",
     progress |-> BatchProgress(Len(sums), cfg.cities),
     message |-> "Completed " \o ToString(Len(sums)) \o "/"
                   \o ToString(cfg.cities) \o " cities",
     result |-> BatchResult(sums)]

\* route.ts lines 278-295: the final update of batch mode
BatchCompletedPartial(sums) ==
    [status |-> "completed", progress |-> 100,
     message |-> "Batch annual comparison completed!",
     endTime |-> [date |-> "t1"],
     result |-> BatchResult(sums)]

\* the change-visualization step is over (its failure is swallowed):
\* route.ts lines 230-275 (batch) and 439-465 (annual)
AfterChange(stats) ==
    IF cfg.mode = "annual"
    THEN /\ mem' = updateProcessingJob(mem, Job, AnnualCompletedPartial(stats))
         /\ pc' = "final_persist"
         /\ UNCHANGED summaries
    ELSE /\ summaries' = Append(summaries, CitySummary(stats))
         /\ mem' = updateProcessingJob(mem, Job,
                     BatchCityPartial(Append(summaries, CitySummary(stats))))
         /\ pc' = "city_persist"

\* the zeros a batch task returns from its catch (route.ts lines 176, 179)
ZeroMonth(u) == [month |-> u[2], veg |-> 0]

\* variant: the rejection of any unit reaches the driver's catch
FailNotSwallowed(u, err) ==
    /\ Catch(err)
    /\ unit' = [unit EXCEPT ![u].phase = "failed"]
    /\ UNCHANGED <<pool, monthly, summaries>>

\* a unit's promise rejects: route.ts line 507 (single: the driver's catch),
\* 176/179 and 382 (months: swallowed by the task), 230 and 439 (change
\* step: swallowed)
Fail(u, err) ==
    CASE u = SingleUnit ->
           /\ Catch(err)
           /\ unit' = [unit EXCEPT ![u].phase = "failed"]
           /\ UNCHANGED <<pool, monthly, summaries>>
      [] u = ChangeUnit ->
           /\ AfterChange("null")
           /\ unit' = [unit EXCEPT ![u].phase = "failed"]
           /\ UNCHANGED <<pool, monthly, thrown>>
      [] OTHER ->
           /\ SettleMonth(u, [unit EXCEPT ![u].phase = "failed"])
           /\ monthly' = IF cfg.mode = "batch"
                         THEN [monthly EXCEPT ![u[1]] = Append(@, ZeroMonth(u))]
                         ELSE monthly
           /\ UNCHANGED <<mem, summaries, thrown>>

\* route.ts lines 535-543 (the worker cannot be started), 594-606 (it exits
\* with a nonzero code, or emits 'error'): runPythonScript rejects
WorkerFails(u, err) ==
    /\ Running(u)
    /\ Fail(u, err)
    /\ UNCHANGED <<created, cfg, cityIdx, completedMonths, previews,
                   handlers, storeVars>>

----------------------------------------------------------------------------
(* Completion of units: the worker closes with code 0 (route.ts lines       *)
(* 594-597), its results are collected, and the caller runs on.  The awaits *)
(* in between change nothing any other step reads.                          *)

Label(u) == u[1] \o " " \o ToString(u[2])

\* variant: the append does not start from the list stored in the job
ExistingPreviewsNone(job) == <<>>

\* (job?.result as any)?.previews || []  (route.ts lines 138 and 357)
ExistingPreviews(job) ==
    IF "result" \in DOMAIN job /\ "previews" \in DOMAIN job.result
    THEN job.result.previews ELSE <<>>

Preview(u, veg) == [city |-> cityIdx, type |-> u[1], month |-> u[2], veg |-> veg]

\* route.ts lines 351-372: the partial of a completed month, annual mode
AnnualUnitPartial(u, veg, hasPreview, job, done) ==
    [status |-> "processing",
     progress |-> CoarseProgress(done),
     message |-> Label(u) \o " completed",
     result |->
       [downloadedImages |-> done,
        vegetationPercentage |-> Veg1(veg),
        summary |-> Undefined,
        previews |-> IF hasPreview
                     THEN Append(ExistingPreviews(job), Preview(u, veg))
                     ELSE ExistingPreviews(job)]]

\* route.ts lines 344-385: a month of annual mode completes: monthly and
\* previews are pushed, the job is updated and persisted, the task returns
AnnualUnitComplete(u, veg, hasPreview) ==
    /\ cfg.mode = "annual"
    /\ u \in MonthUnits
    /\ Running(u)
    /\ monthly' = [monthly EXCEPT ![u[1]] = Append(@, [month |-> u[2], veg |-> veg])]
    /\ previews' = IF hasPreview
                   THEN [previews EXCEPT ![u[1]] = Append(@, Preview(u, veg))]
                   ELSE previews
    /\ completedMonths' = completedMonths + 1
    /\ mem' = updateProcessingJob(mem, Job,
                AnnualUnitPartial(u, veg, hasPreview, getProcessingJob(mem, Job),
                                  completedMonths + 1))
    /\ SettleMonth(u, [unit EXCEPT ![u] = [phase |-> "ok", veg |-> veg]])
    /\ UNCHANGED <<created, cfg, cityIdx, summaries, thrown, handlers, storeVars>>

\* variant: the preview update builds its result from the previews alone
BatchUnitPartialPreviewsOnly(u, veg, job) ==
    [status |-> "processing",
     message |-> ToString(cityIdx) \o " " \o Label(u) \o " completed",
     result |-> [previews |-> Append(ExistingPreviews(job), Preview(u, veg))]]

\* route.ts lines 143-150: the partial of a completed month, batch mode
BatchUnitPartial(u, veg, job) ==
    [status |-> "processing",
     message |-> ToString(cityIdx) \o " " \o Label(u) \o " completed",
     result |->
       Spread(IF "result" \in DOMAIN job THEN job.result ELSE <<>>,
              [previews |-> Append(ExistingPreviews(job), Preview(u, veg))])]

\* route.ts lines 134-168 and 175-180: a month of batch mode completes; with
\* a thumbnail the job is updated and persisted; the task returns its values
BatchUnitComplete(u, veg, hasPreview) ==
    /\ cfg.mode = "batch"
    /\ u \in MonthUnits
    /\ Running(u)
    /\ mem' = IF hasPreview
              THEN updateProcessingJob(mem, Job,
                     BatchUnitPartial(u, veg, getProcessingJob(mem, Job)))
              ELSE mem
    /\ monthly' = [monthly EXCEPT ![u[1]] = Append(@, [month |-> u[2], veg |-> veg])]
    /\ SettleMonth(u, [unit EXCEPT ![u] = [phase |-> "ok", veg |-> veg]])
    /\ UNCHANGED <<created, cfg, cityIdx, summaries, thrown, completedMonths,
                   previews, handlers, storeVars>>

\* route.ts lines 492-498: the final update of single-range mode
SingleCompletedPartial(veg) ==
    [status |-> "completed", progress |-> 100,
     message |-> "Processing completed successfully!",
     endTime |-> [date |-> "t1"],
     result |-> [downloadedImages |-> 1, vegetationPercentage |-> Veg1(veg),
                 summary |-> [vegetation_percentage |-> veg]]]

\* route.ts lines 486-501: the single unit completes and the job with it
SingleCollected(veg) ==
    /\ Running(SingleUnit)
    /\ unit' = [unit EXCEPT ![SingleUnit] = [phase |-> "ok", veg |-> veg]]
    /\ mem' = updateProcessingJob(mem, Job, SingleCompletedPartial(veg))
    /\ pc' = "final_persist"
    /\ UNCHANGED <<created, cfg, cityIdx, pool, monthly, summaries, thrown,
                   completedMonths, previews, handlers, storeVars>>

\* route.ts lines 217-229 and 424-438: the change step completes
ChangeCollected(stats) ==
    /\ Running(ChangeUnit)
    /\ unit' = [unit EXCEPT ![ChangeUnit].phase = "ok"]
    /\ AfterChange(stats)
    /\ UNCHANGED <<created, cfg, cityIdx, pool, monthly, thrown,
                   completedMonths, previews, handlers, storeVars>>

\* route.ts lines 171-185 and 272-299: the persist after a city settles; the
\* loop goes to the next city, or the job is completed
CityPersisted ==
    /\ pc = "city_persist"
    /\ IF cityIdx < cfg.cities
       THEN /\ cityIdx' = cityIdx + 1
            /\ pool' = StartCity(cfg.limit).pool
            /\ unit' = StartCity(cfg.limit).unit
            /\ monthly' = [r \in Roles |-> <<>>]
            /\ pc' = "batch"
            /\ UNCHANGED mem
       ELSE /\ mem' = updateProcessingJob(mem, Job, BatchCompletedPartial(summaries))
            /\ pc' = "final_persist"
            /\ UNCHANGED <<cityIdx, pool, unit, monthly>>
    /\ UNCHANGED <<created, cfg, summaries, thrown, completedMonths, previews,
                   handlers, storeVars>>

\* route.ts lines 296-300, 462-465, 499-502, 515-518: the last persist
\* settles and processInBackground returns
FinalPersisted ==
    /\ pc \in {"final_persist", "catch_persist"}
    /\ pc' = "done"
    /\ UNCHANGED <<mem, created, cfg, cityIdx, unit, pool, monthly, summaries,
                   thrown, completedMonths, previews, handlers, storeVars>>

----------------------------------------------------------------------------
(* One job from POST to the end of processInBackground *)

\* uuidv4(): an id no job has had
NewId == CHOOSE i \in JobIds : i \notin created

\* route.ts lines 10-56: POST answers 400 to a body without city and cities,
\* and otherwise creates the job (limit: the MAX_WORKERS of this process)
POSTRequest(config, limit) ==
    IF ~ValidBody(config)
    THEN /\ pc = "idle"
         /\ resp' = BadRequest(config)
         /\ UNCHANGED <<mem, created, pc, cfg, cityIdx, unit, pool, monthly,
                        summaries, thrown, completedMonths, previews, handlers,
                        file, writes, stream, call>>
    ELSE POST(NewId, ModeOf(config), limit,
              IF ModeOf(config) = "batch" THEN config.cities ELSE 1)

Next ==
    \/ \E config \in Bodies, limit \in 1..MaxN : POSTRequest(config, limit)
    \/ PostPersisted
    \/ \E ok \in BOOLEAN : Mkdir(ok)
    \/ InitPersisted
    \/ \E u \in UnitIds, p \in ProgressInputs : WorkerOutput(u, p)
    \/ \E sc \in Scripts, p \in ProgressInputs : HandlerNextLine(sc, p)
    \/ \E sc \in Scripts : HandlerEnds(sc)
    \/ \E u \in UnitIds, err \in {"start", "exit"} : WorkerFails(u, err)
    \/ \E u \in MonthUnits, veg \in VegValues, hasPreview \in Thumbnails :
         AnnualUnitComplete(u, veg, hasPreview)
    \/ \E u \in MonthUnits, veg \in VegValues, hasPreview \in Thumbnails :
         BatchUnitComplete(u, veg, hasPreview)
    \/ \E veg \in VegValues : SingleCollected(veg)
    \/ \E stats \in {"null", "stats"} : ChangeCollected(stats)
    \/ CityPersisted
    \/ FinalPersisted

Spec == Init /\ [][Next]_vars

----------------------------------------------------------------------------
(* Properties of one job (checked under Spec) *)

\* C1: in every mode and for every limit N, the number of unit executions
\* running at the same time never exceeds N.
ConcurrencyWithinLimit ==
    pc # "idle" => NRunning <= cfg.limit

\* C2: until the job is terminal, its progress never decreases from one
\* snapshot to the next, whatever update is made.
ProgressNonDecreasing ==
    [][(pc # "idle" /\ ~Terminal(mem[Job].status)
                    /\ ~Terminal(mem'[Job].status))
          => mem'[Job].progress >= mem[Job].progress]_vars

\* C3: once the status is completed or failed, no later operation changes
\* any field of the snapshot.
TerminalSnapshotImmutable ==
    [][(pc # "idle" /\ Terminal(mem[Job].status))
          => mem'[Job] = mem[Job]]_vars

\* C4, as stated: the status changes only along
\* pending -> {downloading, processing} -> {completed, failed}; in
\* particular it never becomes terminal directly from pending.
StatusTransitionsAsStated ==
    [][pc # "idle" =>
         LET s == mem[Job].status
             t == mem'[Job].status
         IN  \/ s = t
             \/ s = "pending" /\ t \in {"downloading", "processing"}
             \/ s \in {"downloading", "processing"}
                  /\ t \in {"downloading", "processing", "completed", "failed"}]_vars

\* C4, amended: the status changes only along
\* pending -> {downloading, processing} -> {completed, failed}, or from
\* pending directly to failed (the driver's catch); it never becomes
\* completed directly from pending, never returns to pending, and never
\* leaves completed or failed.
StatusTransitions ==
    [][pc # "idle" =>
         LET s == mem[Job].status
             t == mem'[Job].status
         IN  \/ s = t
             \/ s = "pending" /\ t \in {"downloading", "processing", "failed"}
             \/ s \in {"downloading", "processing"}
                  /\ t \in {"downloading", "processing", "completed", "failed"}]_vars

\* C4 witness: a job that failed while it was still pending
FailedFromPending ==
    /\ pc = "done"
    /\ thrown = "mkdir"
    /\ mem[Job].status = "failed"

\* C5: in annual and batch modes the mean of a role is taken over the months
\* whose unit produced a result: with sum and count of those months,
\* mean = sum / count, a failed month being neither added nor counted.
MeanOverSuccessfulMonths ==
    \A r \in Roles :
      LET ok == {u \in MonthUnits : u[1] = r /\ unit[u].phase = "ok"}
          sumOk == SumVeg([i \in 1..Len(monthly[r]) |->
                             IF unit[<<r, monthly[r][i].month>>].phase = "ok"
                             THEN monthly[r][i] ELSE [month |-> 0, veg |-> 0]])
          mean == IF cfg.mode = "annual"
                  THEN IF r = "baseline"
                       THEN mem[Job].result.annualComparison.baselineVegetation
                       ELSE mem[Job].result.annualComparison.compareVegetation
                  ELSE IF r = "baseline"
                       THEN summaries[Len(summaries)].baselineVegetation
                       ELSE summaries[Len(summaries)].compareVegetation
      IN  (/\ pc \in {"city_persist", "final_persist", "done"}
           /\ cfg.mode \in {"annual", "batch"}
           /\ thrown = NoError
           /\ ok # {})
          => mean.sum * Cardinality(ok) = sumOk * mean.count

\* C6: in annual and batch modes a unit's failure is swallowed: the job is
\* never failed, and when the driver is done every month unit has settled
\* and the job is completed, whatever units failed.
UnitFailureSwallowed ==
    (/\ pc # "idle"
     /\ cfg.mode \in {"annual", "batch"}
     /\ \E u \in UnitIds : unit[u].phase = "failed")
    => /\ mem[Job].status # "failed"
       /\ thrown = NoError
       /\ pc = "done" => /\ mem[Job].status = "completed"
                         /\ \A u \in MonthUnits : Settled(u)

\* C6 witness: an annual job completed although a month failed beside a
\* month that succeeded
AnnualCompletedDespiteFailure ==
    /\ pc = "done"
    /\ cfg.mode = "annual"
    /\ mem[Job].status = "completed"
    /\ \E u, w \in MonthUnits :
         unit[u].phase = "failed" /\ unit[w].phase = "ok" /\ u[1] = w[1]

\* C7: the failure of the unit of single-range mode, and in any mode an
\* exception escaping the driver, moves the job from its non-terminal status
\* (pending included) to failed, the job's message carrying the exception's
\* message; no unit runs afterwards.
FailureReachesJob ==
    /\ [](pc # "idle" =>
           /\ unit[SingleUnit].phase = "failed" => thrown # NoError
           /\ thrown # NoError =>
                /\ mem[Job].status = "failed"
                /\ mem[Job].message = "Processing failed: " \o thrown
                /\ \A u \in UnitIds : ~Running(u)
                /\ pc \in {"catch_persist", "done"})
    /\ [][(pc # "idle" /\ thrown' # thrown) =>
            /\ mem[Job].status \in {"pending", "downloading", "processing"}
            /\ mem'[Job].status = "failed"
            /\ \A u \in UnitIds : Running(u) => unit'[u].phase = "failed"]_vars

\* C7 witness: a single-range job failed by its unit, the worker's exit
\* being reported
SingleFailedByUnit ==
    /\ pc = "done"
    /\ cfg.mode = "single"
    /\ unit[SingleUnit].phase = "failed"
    /\ mem[Job].status = "failed"
    /\ mem[Job].message = "Processing failed: exit"

----------------------------------------------------------------------------
(* The Registry, the status files and GET, over several jobs and restarts  *)

driverVars == <<pc, cfg, cityIdx, unit, pool, monthly, summaries, thrown,
                completedMonths, previews, handlers>>

\* the body of the 404 response
NotFoundBody == [error |-> "Processing job not found"]

\* fs.writeFile(statusPath, payload) is called by the driver (POST included)
\* or by a stdout handler: the write is in flight
StartWrite(w, id, by, payload) ==
    [w EXCEPT ![id] = @ \cup {[by |-> by, payload |-> payload]}]

\* the driver awaits each of its writes before it goes on
DriverWriting(id) == \E x \in writes[id] : x.by = "driver"

\* route.ts lines 21-43: POST creates the job and persists the status object
StorePOST(id) ==
    /\ id \notin created
    /\ mem' = setProcessingJob(mem, id, InitialStatus(id))
    /\ created' = created \cup {id}
    /\ writes' = StartWrite(writes, id, "driver", Stringify(InitialStatus(id)))
    /\ UNCHANGED <<file, resp, driverVars, stream, call>>

\* the updates processInBackground makes first and last: route.ts lines
\* 68-72, 492-498 and 509-514
DriverPartials ==
    {InitPartial, SingleCompletedPartial(30),
     FailedPartial("mkdir"), FailedPartial("exit")}

\* route.ts lines 68-79, 492-502, 507-518: the driver of a job of this
\* process updates the job and persists what getProcessingJob returns
StoreUpdate(id, partial) ==
    /\ mem[id] # NoJob
    /\ ~Terminal(mem[id].status)
    /\ partial.status = "downloading" => mem[id].status = "pending"
    /\ partial.status = "completed" => mem[id].status = "downloading"
    /\ partial = FailedPartial("mkdir") => mem[id].status = "pending"
    /\ partial = FailedPartial("exit") => mem[id].status = "downloading"
    /\ ~DriverWriting(id)
    /\ mem' = updateProcessingJob(mem, id, partial)
    /\ writes' = StartWrite(writes, id, "driver",
                            StatusPayload(updateProcessingJob(mem, id, partial), id))
    /\ UNCHANGED <<file, created, resp, driverVars, stream, call>>

\* route.ts lines 558-582: while the worker of the job runs, a stdout handler
\* updates the progress and persists; nobody awaits the handler
StoreProgress(id, p) ==
    /\ mem[id] # NoJob
    /\ mem[id].status \in {"downloading", "processing"}
    /\ ~(mem[id].status = "downloading" /\ DriverWriting(id))
    /\ Cardinality({x \in writes[id] : x.by = "handler"}) < MaxWrites
    /\ mem' = updateProcessingJob(mem, id,
                 ProgressPartial("satellite_processor_fixed.py", p))
    /\ writes' = StartWrite(writes, id, "handler",
                   StatusPayload(updateProcessingJob(mem, id,
                     ProgressPartial("satellite_processor_fixed.py", p)), id))
    /\ UNCHANGED <<file, created, resp, driverVars, stream, call>>

\* variant: a failed write reaches the driver's catch
WriteSettlesOrFails(id, w, ok) ==
    /\ w \in writes[id]
    /\ writes' = [writes EXCEPT ![id] = @ \ {w}]
    /\ file' = IF ok THEN [file EXCEPT ![id] = w.payload] ELSE file
    /\ mem' = IF ok THEN mem
              ELSE updateProcessingJob(mem, id, FailedPartial("write"))
    /\ UNCHANGED <<created, resp, driverVars, stream, call>>

\* a write settles: the file holds the payload, or the write failed and the
\* error is swallowed (route.ts lines 41-43, 77-79, 500-502, 518)
WriteSettles(id, w, ok) ==
    /\ w \in writes[id]
    /\ writes' = [writes EXCEPT ![id] = @ \ {w}]
    /\ file' = IF ok THEN [file EXCEPT ![id] = w.payload] ELSE file
    /\ UNCHANGED <<mem, created, resp, driverVars, stream, call>>

\* the server process is restarted: processing-store.ts line 6 runs again,
\* the drivers and their pending writes are gone, the files stay
Restart ==
    /\ mem' = [i \in JobIds |-> NoJob]
    /\ writes' = [i \in JobIds |-> {}]
    /\ UNCHANGED <<file, created, resp, driverVars, stream, call>>

\* greenspace-app/src/app/api/status/[id]/route.ts lines 4-32
GET(id) ==
    /\ resp' = IF getProcessingJob(mem, id) = NoJob
               THEN [handler |-> "GET", id |-> id, code |-> 404,
                     body |-> NotFoundBody]
               ELSE [handler |-> "GET", id |-> id, code |-> 200,
                     body |-> Stringify(getProcessingJob(mem, id))]
    /\ UNCHANGED <<mem, file, writes, created, driverVars, stream, call>>

\* unnamed/part_009 lines 6-49: GET with the fallback to status.json
GETFileBacked(id) ==
    /\ resp' = IF getProcessingJob(mem, id) # NoJob
               THEN [handler |-> "GETFileBacked", id |-> id, code |-> 200,
                     body |-> Stringify(getProcessingJob(mem, id))]
               ELSE IF file[id] # NoFile
               THEN [handler |-> "GETFileBacked", id |-> id, code |-> 200,
                     body |-> file[id]]
               ELSE [handler |-> "GETFileBacked", id |-> id, code |-> 404,
                     body |-> NotFoundBody]
    /\ UNCHANGED <<mem, file, writes, created, driverVars, stream, call>>

NextStore ==
    \/ \E id \in JobIds : StorePOST(id)
    \/ \E id \in JobIds, partial \in DriverPartials : StoreUpdate(id, partial)
    \/ \E id \in JobIds, ok \in BOOLEAN :
         \E w \in writes[id] : WriteSettles(id, w, ok)
    \/ Restart
    \/ \E id \in JobIds : GET(id)
    \/ \E id \in JobIds : GETFileBacked(id)

SpecStore == Init /\ [][NextStore]_vars

\* the updates of the jobs of one process and their writes of status.json
NextPersist ==
    \/ \E id \in JobIds : StorePOST(id)
    \/ \E id \in JobIds, partial \in DriverPartials : StoreUpdate(id, partial)
    \/ \E id \in JobIds, p \in ProgressInputs : StoreProgress(id, p)
    \/ \E id \in JobIds, ok \in BOOLEAN :
         \E w \in writes[id] : WriteSettles(id, w, ok)

SpecPersist == Init /\ [][NextPersist]_vars

----------------------------------------------------------------------------
(* Properties of GET (checked under SpecStore) *)

\* C9: GET by job id returns the in-memory snapshot if there is one,
\* otherwise the snapshot of the job's status file, and not-found only when
\* the job is in neither.
GetMemoryThenFile ==
    [][resp' # resp =>
         LET id == resp'.id
         IN  IF mem[id] # NoJob
             THEN resp'.code = 200 /\ resp'.body = Stringify(mem[id])
             ELSE IF file[id] # NoFile
             THEN resp'.code = 200 /\ resp'.body = file[id]
             ELSE resp'.code = 404]_vars

\* C10: GET on an id for which no job was ever created returns not-found,
\* whatever other jobs exist or have existed.
UnknownIdNotFound ==
    /\ \A id \in JobIds \ created :
         mem[id] = NoJob /\ file[id] = NoFile /\ writes[id] = {}
    /\ (resp # NoResp /\ resp.id \notin created) =>
         resp.code = 404 /\ resp.body = NotFoundBody

\* C10 witness: both handlers would answer; here the one with the file
\* fallback answered not-found for an unknown id while another job has its
\* status file and the memory is empty
UnknownIdAnswered ==
    /\ resp.handler = "GETFileBacked"
    /\ resp.id \notin created
    /\ resp.code = 404
    /\ \E j \in created : file[j] # NoFile /\ mem[j] = NoJob

----------------------------------------------------------------------------
(* Properties of POST (checked under Spec) *)

\* C11: the job is in the Registry, pending with progress 0, before POST
\* answers with its id; from then on a GET (either handler) and a stream
\* sample of that id find the job, however far the driver has got.
JobCreatedBeforeResponse ==
    /\ pc = "post_persist" => mem[Job] = InitialStatus(Job)
    /\ (resp.handler = "POST" /\ resp.code = 200) =>
         /\ resp.body.processingId \in created
         /\ getProcessingJob(mem, resp.body.processingId) # NoJob
         /\ getProcessingJob(mem, resp.body.processingId).id
              = resp.body.processingId

\* C11 witness: POST has answered and the driver has finished a job whose
\* units ran
AnsweredAndDone ==
    /\ resp.handler = "POST"
    /\ resp.code = 200
    /\ pc = "done"
    /\ \E u \in UnitIds : Settled(u)

----------------------------------------------------------------------------
(* processing-store.ts on its own: its functions called in any order       *)

regVars == <<file, writes, created, resp, stream, driverVars>>

\* partials the program passes to updateProcessingJob (route.ts lines 68-72,
\* 573-575, 143-150, 283-294, 509-514)
RegistryPartials(job) ==
    {InitPartial,
     ProgressPartial("satellite_processor_fixed.py", 100),
     BatchCompletedPartial(<<>>),
     FailedPartial("exit")}
    \cup IF Len(ExistingPreviews(job)) < MaxPreviews
         THEN {BatchUnitPartial(<<"baseline", 1>>, 30, job)}
         ELSE {}

\* processing-store.ts lines 12-14
RegistrySet(id) ==
    /\ mem' = setProcessingJob(mem, id, InitialStatus(id))
    /\ call' = [op |-> "setProcessingJob", id |-> id,
                arg |-> InitialStatus(id), before |-> mem]
    /\ UNCHANGED regVars

\* processing-store.ts lines 16-34
RegistryUpdate(id, updates) ==
    /\ mem' = updateProcessingJob(mem, id, updates)
    /\ call' = [op |-> "updateProcessingJob", id |-> id,
                arg |-> updates, before |-> mem]
    /\ UNCHANGED regVars

\* processing-store.ts lines 40-42
RegistryDelete(id) ==
    /\ mem' = deleteProcessingJob(mem, id)
    /\ call' = [op |-> "deleteProcessingJob", id |-> id,
                arg |-> NoJob, before |-> mem]
    /\ UNCHANGED regVars

NextRegistry ==
    \/ \E id \in JobIds : RegistrySet(id)
    \/ \E id \in JobIds :
         \E updates \in RegistryPartials(mem[id]) : RegistryUpdate(id, updates)
    \/ \E id \in JobIds : RegistryDelete(id)

SpecRegistry == Init /\ [][NextRegistry]_vars

\* C13: update on an id that is not in the Registry is a no-op: it creates
\* no job and leaves every existing job unchanged.
UpdateUnknownIsNoOp ==
    (call.op = "updateProcessingJob" /\ call.before[call.id] = NoJob)
    => /\ mem[call.id] = NoJob
       /\ \A j \in JobIds : mem[j] = call.before[j]

\* C13 witness: an update was made on an unknown id while another job with
\* a result was in the Registry
UpdatedUnknownBesideJob ==
    /\ call.op = "updateProcessingJob"
    /\ call.before[call.id] = NoJob
    /\ \E j \in JobIds : mem[j] # NoJob /\ "result" \in DOMAIN mem[j]

\* C14 (checked under Spec): an update merges its partial into the job:
\* top-level fields absent from the partial keep their values, and the
\* result is merged, so a member of the stored result (previews, say) is
\* still a member of the result after any update.
ResultMerged ==
    [][(pc # "idle" /\ "result" \in DOMAIN mem[Job]) =>
         /\ \A k \in DOMAIN mem[Job] : k \in DOMAIN mem'[Job]
         /\ \A k \in DOMAIN mem[Job].result : k \in DOMAIN mem'[Job].result]_vars

----------------------------------------------------------------------------
(* Properties of the status file (checked under SpecPersist) *)

\* C15: every update is followed by a write of the whole snapshot to the
\* job's status file: once the file equals the in-memory snapshot (the write
\* of the latest update has completed), it stays equal to it until the next
\* update.
FileFollowsMemory ==
    [][\A id \in JobIds :
         (/\ mem[id] # NoJob
          /\ file[id] = Stringify(mem[id])
          /\ mem'[id] = mem[id])
         => file'[id] = Stringify(mem'[id])]_vars

\* C16: a failed write of the status file changes nothing of the job: the
\* snapshot is as before, and a job is failed only by the driver's catch,
\* never by a write.
FailedWriteIgnored ==
    /\ [][\A id \in JobIds : \A w \in writes[id] :
            WriteSettles(id, w, FALSE) => mem' = mem /\ file' = file]_vars
    /\ [](\A id \in JobIds :
            (mem[id] # NoJob /\ mem[id].status = "failed")
            => mem[id].message \in {"Processing failed: mkdir",
                                    "Processing failed: exit"})

\* C16 witness: every write of a job failed (it has no status file) and the
\* job is completed
CompletedWithoutFile ==
    \E id \in JobIds :
      /\ mem[id] # NoJob
      /\ mem[id].status = "completed"
      /\ writes[id] = {}
      /\ file[id] = NoFile

----------------------------------------------------------------------------
(* status/stream/[id]/route.ts: one push stream                            *)

StreamJobs == {"j1"}     \* the job the stream is about

\* variant: snapshot() makes up a pending job when there is none
snapshotOrPlaceholder(inMemory, fileStatus) ==
    IF inMemory # NoJob THEN Stringify(inMemory)
    ELSE IF fileStatus # NoFile THEN fileStatus
    ELSE [id |-> "", status |-> "pending"]

\* stream route lines 34-41: inMemory || fileStatus || null, as the string
\* JSON.stringify makes of it in send()
snapshot(inMemory, fileStatus) ==
    IF inMemory # NoJob THEN Stringify(inMemory)
    ELSE IF fileStatus # NoFile THEN fileStatus
    ELSE NoPayload

\* frames handed to controller.enqueue
DataFrame(payload) == [type |-> "data", text |-> "", payload |-> payload]
Comment(text) == [type |-> "comment", text |-> text, payload |-> NoPayload]

\* variant: send() without the comparison with lastSent
sendAlways(st, payload) ==
    [st EXCEPT !.lastSent = payload,
               !.out = Append(@, DataFrame(payload)),
               !.lastData = payload]

\* stream route lines 40-46; lastData is the payload of the last data frame
\* enqueued (history), lastSent the variable of the code
send(st, payload) ==
    IF payload # st.lastSent
    THEN [st EXCEPT !.lastSent = payload,
                    !.out = Append(@, DataFrame(payload)),
                    !.lastData = payload]
    ELSE st

\* variant: only a completed job closes the stream
IsTerminalSampleCompleted(payload) == payload.status = "completed"

\* stream route line 58
IsTerminalSample(payload) == payload.status \in {"completed", "failed"}

\* stream route lines 23-49: GET creates the stream; start() calls snapshot(),
\* which reads the Registry and awaits the read of the status file
Subscribe(id) ==
    /\ stream.state = "none"
    /\ stream' = [id |-> id, state |-> "initial", lastSent |-> NoPayload,
                  pending |-> {getProcessingJob(mem, id)}, out |-> <<>>,
                  sample |-> NoPayload, lastData |-> NoPayload,
                  waited |-> FALSE]
    /\ UNCHANGED <<mem, file, writes, created, resp, call, driverVars>>

\* stream route lines 49-53: the initial snapshot arrives; it is sent, or a
\* heartbeat is; the interval is set
InitialDelivered ==
    /\ stream.state = "initial"
    /\ \E x \in stream.pending :
         LET payload == snapshot(x, file[stream.id])
             st == [stream EXCEPT !.state = "open", !.pending = {},
                                  !.out = <<>>, !.sample = payload]
         IN  stream' = IF payload # NoPayload
                       THEN send(st, payload)
                       ELSE [st EXCEPT !.out = <<Comment(": waiting for status")>>,
                                       !.waited = TRUE]
    /\ UNCHANGED <<mem, file, writes, created, resp, call, driverVars>>

\* stream route lines 53-55 and 34-36: the interval fires and snapshot() is
\* called
Tick ==
    /\ stream.state = "open"
    /\ Cardinality(stream.pending) < MaxSamples
    /\ stream' = [stream EXCEPT
                    !.pending = @ \cup {getProcessingJob(mem, stream.id)}]
    /\ UNCHANGED <<mem, file, writes, created, resp, call, driverVars>>

\* stream route lines 55-68: the snapshot of a tick arrives.  On a closed
\* stream controller.enqueue throws, in the try and again in the catch, and
\* no frame goes out.
Deliver(x) ==
    /\ stream.state \in {"open", "closed"}
    /\ x \in stream.pending
    /\ LET payload == snapshot(x, file[stream.id])
           st == [stream EXCEPT !.pending = @ \ {x}, !.out = <<>>,
                                !.sample = payload]
       IN  stream' =
             IF stream.state = "closed"
             THEN IF payload # NoPayload /\ payload # st.lastSent
                  THEN [st EXCEPT !.lastSent = payload]
                  ELSE st
             ELSE IF payload = NoPayload
             THEN [st EXCEPT !.out = <<Comment(": no-status")>>,
                             !.waited = TRUE]
             ELSE IF IsTerminalSample(payload)
             THEN [send(st, payload) EXCEPT
                     !.out = Append(@, Comment(": closing")),
                     !.state = "closed"]
             ELSE send(st, payload)
    /\ UNCHANGED <<mem, file, writes, created, resp, call, driverVars>>

NextStream ==
    \/ \E id \in StreamJobs : StorePOST(id)
    \/ \E id \in StreamJobs, partial \in DriverPartials : StoreUpdate(id, partial)
    \/ \E id \in StreamJobs, p \in ProgressInputs : StoreProgress(id, p)
    \/ \E id \in StreamJobs, ok \in BOOLEAN :
         \E w \in writes[id] : WriteSettles(id, w, ok)
    \/ \E id \in StreamJobs : Subscribe(id)
    \/ InitialDelivered
    \/ Tick
    \/ \E x \in stream.pending : Deliver(x)

SpecStream == Init /\ [][NextStream]_vars

\* the interval keeps firing and the reads of the status file return
SpecStreamLive ==
    /\ Init /\ [][NextStream]_vars
    /\ WF_vars(InitialDelivered)
    /\ WF_vars(Tick)
    /\ WF_vars(\E x \in stream.pending : Deliver(x))

----------------------------------------------------------------------------
(* The push stream: claims                                                 *)

DataFramesOf(out) == {i \in 1..Len(out) : out[i].type = "data"}

\* C17: when a snapshot sampled by an open stream arrives, it goes out as a
\* data event exactly when it differs by value from the last data event the
\* stream sent: a sample equal to it is not sent again, a sample that differs
\* is never suppressed, and no two consecutive data events are equal.
EmittedWhenDifferent ==
    [][(/\ stream.state \in {"initial", "open"}
        /\ InitialDelivered \/ \E x \in stream.pending : Deliver(x))
       => LET sampled == stream'.sample
              frames == stream'.out
          IN  /\ (sampled # NoPayload /\ sampled # stream.lastData)
                   => /\ Cardinality(DataFramesOf(frames)) = 1
                      /\ \A i \in DataFramesOf(frames) :
                           frames[i].payload = sampled
                      /\ stream'.lastData = sampled
              /\ (sampled = NoPayload \/ sampled = stream.lastData)
                   => /\ DataFramesOf(frames) = {}
                      /\ stream'.lastData = stream.lastData
              /\ \A i \in DataFramesOf(frames) :
                   frames[i].payload # stream.lastData]_vars

\* C17 witness: an open stream has just sampled the snapshot it sent last,
\* after the job had moved on from pending, and sent nothing
SameSampleNotResent ==
    /\ stream.state = "open"
    /\ stream.sample # NoPayload
    /\ stream.sample = stream.lastData
    /\ stream.sample.status = "downloading"
    /\ stream.out = <<>>

\* C18: a stream closes only after a data event with a terminal status, which
\* is then the last data event it delivered; and a stream on a job that has
\* reached completed or failed eventually closes.
StreamClosesOnTerminal ==
    /\ [](stream.state = "closed"
            => /\ stream.lastData # NoPayload
               /\ Terminal(stream.lastData.status)
               /\ stream.lastData.id = stream.id)
    /\ [][stream.state = "closed" =>
            /\ stream'.state = "closed"
            /\ stream'.lastData = stream.lastData
            /\ (stream' # stream => stream'.out = <<>>)]_vars
    /\ [][(stream.state = "open" /\ stream'.state = "closed")
            => /\ stream'.out[Len(stream'.out)] = Comment(": closing")
               /\ stream'.sample = stream'.lastData]_vars
    /\ (/\ stream.state \in {"initial", "open"}
        /\ mem[stream.id] # NoJob
        /\ Terminal(mem[stream.id].status))
         ~> (stream.state = "closed")

\* C18 witness: a stream on a failed job has closed; its last data event is
\* the failed snapshot
ClosedOnFailedJob ==
    /\ stream.state = "closed"
    /\ stream.lastData # NoPayload
    /\ stream.lastData.status = "failed"
    /\ mem[stream.id].status = "failed"

\* C19: while the job a stream subscribed to has not been created (it is in
\* neither the Registry nor a status file), the stream has sent no data event
\* and every sample it took was answered with a heartbeat comment; every data
\* event of the stream, the first included, is a snapshot of that job.
OnlyHeartbeatsBeforeCreation ==
    /\ [](stream.state # "none" =>
            /\ (stream.id \notin created => stream.lastData = NoPayload)
            /\ (stream.lastData # NoPayload => stream.lastData.id = stream.id)
            /\ \A i \in DataFramesOf(stream.out) :
                 stream.out[i].payload.id = stream.id)
    /\ [][(/\ stream.state \in {"initial", "open"}
           /\ mem[stream.id] = NoJob /\ file[stream.id] = NoFile
           /\ InitialDelivered \/ \E x \in stream.pending : Deliver(x))
          => /\ Len(stream'.out) = 1
             /\ stream'.out[1].type = "comment"
             /\ stream'.out[1].text \in {": waiting for status", ": no-status"}
             /\ stream'.lastData = NoPayload]_vars
    /\ [][(stream.state # "none" /\ stream.lastData = NoPayload
             /\ stream'.lastData # NoPayload)
          => /\ stream'.lastData.id = stream.id
             /\ stream.id \in created
             /\ stream'.out[1] = DataFrame(stream'.lastData)]_vars

\* C19 witness: a stream that waited with heartbeats for a job not yet created
\* has sent its first data event, the pending snapshot of that job
FirstEventAfterWaiting ==
    /\ stream.state = "open"
    /\ stream.waited
    /\ stream.lastData # NoPayload
    /\ stream.lastData.id = stream.id
    /\ stream.lastData.status = "pending"
    /\ stream.out = <<DataFrame(stream.lastData)>>

----------------------------------------------------------------------------
(* process/route.ts lines 81-84: the pool limit                            *)

\* Numbers are counted in quarters, so that 0.75 * cpuCount and an override
\* such as 2.5 are exact: Quarters(k) is the integer k.
Quarters(k) == 4 * k
IsInteger(q) == q % 4 = 0
MathFloor(q) == 4 * (q \div 4)

\* GREENSPACE_MAX_WORKERS || GREENSAPCE_MAX_WORKERS: not set (or empty),
\* a text that is no number, or a number in steps of a quarter
Overrides ==
    {[kind |-> "unset", q |-> 0], [kind |-> "text", q |-> 0]}
      \cup [kind : {"number"}, q : Quarters(-1)..Quarters(MaxOverride)]

\* Number(undefined) and Number("abc") are NaN
NumberOf(env) == [nan |-> env.kind # "number", q |-> env.q]

\* line 84, in quarters
MAX_WORKERS(cpuCount, env) ==
    LET maxWorkersFromEnv == NumberOf(env)
    IN  Max(Quarters(1),
            Min(IF maxWorkersFromEnv.nan
                THEN Max(Quarters(1), MathFloor(3 * cpuCount))
                ELSE maxWorkersFromEnv.q,
                Quarters(12)))

\* processInBackground determines the limit of its pools
DetermineWorkers(cpuCount, env) ==
    /\ pc = "idle"
    /\ call' = [op |-> "MAX_WORKERS", cpuCount |-> cpuCount, env |-> env,
                N |-> MAX_WORKERS(cpuCount, env)]
    /\ UNCHANGED <<mem, file, writes, created, resp, stream, driverVars>>

NextLimit == \E cpuCount \in 0..MaxCpu, env \in Overrides :
                DetermineWorkers(cpuCount, env)

SpecLimit == Init /\ [][NextLimit]_vars

\* C20: for every CPU count and every override the limit is an integer
\* within 1..12: without override it is floor(0.75 * CPU count) clamped to
\* 1..12, with an override it is the override clamped to 1..12.
LimitIsIntegerWithinRange ==
    call.op = "MAX_WORKERS" =>
        /\ IsInteger(call.N)
        /\ Quarters(1) <= call.N /\ call.N <= Quarters(12)
        /\ call.env.kind # "number" =>
             call.N = Max(Quarters(1),
                          Min(MathFloor(3 * call.cpuCount), Quarters(12)))
        /\ call.env.kind = "number" =>
             call.N = Max(Quarters(1), Min(call.env.q, Quarters(12)))

----------------------------------------------------------------------------
(* process/route.ts lines 189-192 and 388-404: the means and percentChange *)

MonthsOfYear == 12               \* Array.from({ length: 12 }, ...)
\* vegetation values of a month in units of 0.03: 10 is 0.30, 11 is 0.33
MeanValues == {0, 10, 11}

\* the monthly results a role collected: month number and vegetation
MonthlyOf(values) == [i \in 1..Len(values) |-> [month |-> i, veg |-> values[i]]]

\* the lists tried: every list of up to MaxLen values, and every full year of
\* one value
MonthlyLists ==
    {MonthlyOf(vs) : vs \in UNION {[1..k -> MeanValues] : k \in 0..MaxLen}}
      \cup {MonthlyOf([i \in 1..MonthsOfYear |-> v]) : v \in MeanValues}

MeanOf(mode, ms) == IF mode = "batch" THEN BatchMean(ms) ELSE AnnualMean(ms)

\* the aggregation of one city (batch) or of the job (annual), computed once
\* from the lists of the two roles
Aggregate(mode, baseMonthly, compMonthly) ==
    /\ pc = "idle"
    /\ call = NoCall
    /\ call' = [op |-> "percentChange", mode |-> mode,
                baseMonthly |-> baseMonthly, compMonthly |-> compMonthly,
                baselineVegetation |-> MeanOf(mode, baseMonthly),
                compareVegetation |-> MeanOf(mode, compMonthly),
                percentChange |-> PercentChange(MeanOf(mode, baseMonthly),
                                                MeanOf(mode, compMonthly))]
    /\ UNCHANGED <<mem, file, writes, created, resp, stream, driverVars>>

NextChange ==
    \E mode \in {"annual", "batch"}, baseMonthly \in MonthlyLists,
       compMonthly \in MonthlyLists :
        Aggregate(mode, baseMonthly, compMonthly)

SpecChange == Init /\ [][NextChange]_vars

\* does every month of the list have vegetation v, the list being a full year
FullYearOf(ms, v) ==
    Len(ms) = MonthsOfYear /\ \A i \in 1..Len(ms) : ms[i].veg = v

\* C21: in the annual and in the batch aggregation percentChange p is 0 when
\* the baseline mean b is 0 and otherwise satisfies p * b = (c - b) * 100 for
\* the compare mean c; twelve baseline values 0.30 and twelve compare values
\* 0.33 give the means 0.30 and 0.33 and percentChange 10.
PercentChangeFormula ==
    call.op = "percentChange" =>
        LET b == call.baselineVegetation
            c == call.compareVegetation
            p == call.percentChange
        IN  /\ b.count > 0 /\ c.count > 0 /\ p.den # 0
            /\ b.sum = 0 => p.num = 0
            /\ b.sum # 0 =>
                 p.num * b.sum * c.count
                   = (c.sum * b.count - b.sum * c.count) * 100 * p.den
            /\ (FullYearOf(call.baseMonthly, 10) /\ FullYearOf(call.compMonthly, 11))
                 => /\ b.sum = 10 * b.count
                    /\ c.sum = 11 * c.count
                    /\ p.num = 10 * p.den

\* C21 witness: the aggregation of twelve months of 0.30 against twelve
\* months of 0.33 has been computed, with percentChange 10
ScenarioTenPercent ==
    /\ call.op = "percentChange"
    /\ FullYearOf(call.baseMonthly, 10)
    /\ FullYearOf(call.compMonthly, 11)
    /\ call.percentChange.num = 10 * call.percentChange.den

----------------------------------------------------------------------------
(* process/route.ts lines 86-108: runWithConcurrency on its own            *)
(*                                                                         *)
(* The state of one call is kept in the variable call: the task list, the  *)
(* limit, index, active, results, the promise returned, and for each task  *)
(* the position of its chain task().then(push).catch(reject).finally(...). *)
(* Task t fulfils with the value t or rejects with the error t.            *)

PendingPromise == [state |-> "pending", value |-> <<>>, error |-> 0]

\* variant: settling an already settled promise replaces its outcome
settleAgain(promise, outcome) == outcome

\* resolve(x) and reject(e) act on a pending promise only
settle(promise, outcome) ==
    IF promise.state = "pending" THEN outcome ELSE promise

\* variant: one task per call of schedule()
StartCountOne(c) == Max(0, Min(1, Min(c.limit - c.active, Len(c.tasks) - c.index)))

\* line 97: the number of passes of while (active < limit && index < tasks.length)
StartCount(c) == Max(0, Min(c.limit - c.active, Len(c.tasks) - c.index))

\* variant: the k tasks are taken from the end of the list
NextTasksFromEnd(c, k) ==
    [i \in 1..k |-> c.tasks[Len(c.tasks) - c.index - i + 1]]

\* line 98: tasks[index++], k times
NextTasks(c, k) == [i \in 1..k |-> c.tasks[c.index + i]]

\* variant: schedule() resolves as soon as the queue is empty
rawScheduleQueueEmpty(c) ==
    IF c.index >= Len(c.tasks)
    THEN [c EXCEPT !.promise = settle(@, [state |-> "resolved",
                                          value |-> c.results, error |-> 0])]
    ELSE LET k == StartCount(c)
             ts == NextTasks(c, k)
         IN  [c EXCEPT !.index = @ + k, !.active = @ + k,
                       !.order = @ \o ts,
                       !.phase = [t \in DOMAIN @ |->
                                    IF \E i \in 1..k : ts[i] = t
                                    THEN "running" ELSE @[t]]]

\* lines 92-105: schedule()
rawSchedule(c) ==
    IF c.index >= Len(c.tasks) /\ c.active = 0
    THEN [c EXCEPT !.promise = settle(@, [state |-> "resolved",
                                          value |-> c.results, error |-> 0])]
    ELSE LET k == StartCount(c)
             ts == NextTasks(c, k)
         IN  [c EXCEPT !.index = @ + k, !.active = @ + k,
                       !.order = @ \o ts,
                       !.phase = [t \in DOMAIN @ |->
                                    IF \E i \in 1..k : ts[i] = t
                                    THEN "running" ELSE @[t]]]

\* lines 87-91 and 106: the call; the executor runs schedule() at once
RunWithConcurrency(n, limit) ==
    /\ pc = "idle"
    /\ call = NoCall
    /\ call' = rawSchedule(
                 [op |-> "runWithConcurrency", tasks |-> [i \in 1..n |-> i],
                  limit |-> limit, index |-> 0, active |-> 0,
                  results |-> <<>>, promise |-> PendingPromise,
                  order |-> <<>>,
                  phase |-> [t \in 1..n |-> "queued"],
                  rejected |-> {}])
    /\ UNCHANGED <<mem, file, writes, created, resp, stream, driverVars>>

PoolRuns == call # NoCall /\ call.op = "runWithConcurrency"

\* the promise of a running task settles
TaskSettles(t, ok) ==
    /\ PoolRuns
    /\ t \in DOMAIN call.phase /\ call.phase[t] = "running"
    /\ call' = [call EXCEPT
                  !.phase[t] = IF ok THEN "fulfilled" ELSE "rejected",
                  !.rejected = IF ok THEN @ ELSE @ \cup {t}]
    /\ UNCHANGED <<mem, file, writes, created, resp, stream, driverVars>>

\* line 100: .then((r) => results.push(r)) of a fulfilled task, or
\* .catch(reject) of a rejected one
TaskCallback(t) ==
    /\ PoolRuns
    /\ t \in DOMAIN call.phase /\ call.phase[t] \in {"fulfilled", "rejected"}
    /\ call' = IF call.phase[t] = "fulfilled"
               THEN [call EXCEPT !.results = Append(@, t),
                                 !.phase[t] = "handled"]
               ELSE [call EXCEPT
                       !.promise = settle(@, [state |-> "rejected",
                                              value |-> <<>>, error |-> t]),
                       !.phase[t] = "handled"]
    /\ UNCHANGED <<mem, file, writes, created, resp, stream, driverVars>>

\* lines 100-103: .finally(() => { active -= 1; schedule(); })
TaskFinally(t) ==
    /\ PoolRuns
    /\ t \in DOMAIN call.phase /\ call.phase[t] = "handled"
    /\ call' = rawSchedule([call EXCEPT !.active = @ - 1,
                                        !.phase[t] = "done"])
    /\ UNCHANGED <<mem, file, writes, created, resp, stream, driverVars>>

NextPool ==
    \/ \E n \in 0..MaxTasks, limit \in 1..MaxN : RunWithConcurrency(n, limit)
    \/ \E t \in 1..MaxTasks, ok \in BOOLEAN : TaskSettles(t, ok)
    \/ \E t \in 1..MaxTasks : TaskCallback(t)
    \/ \E t \in 1..MaxTasks : TaskFinally(t)

SpecPool == Init /\ [][NextPool]_vars

\* every running task eventually settles and every callback is run
SpecPoolLive ==
    /\ Init /\ [][NextPool]_vars
    /\ \A t \in 1..MaxTasks :
         /\ WF_vars(\E ok \in BOOLEAN : TaskSettles(t, ok))
         /\ WF_vars(TaskCallback(t))
         /\ WF_vars(TaskFinally(t))

----------------------------------------------------------------------------
(* runWithConcurrency: claims                                              *)

\* the number of places of the list at which the value occurs
Occurrences(list, v) == Cardinality({i \in 1..Len(list) : list[i] = v})

\* C22: the promise of the pool resolves only after every task has settled
\* and its callbacks have run, with exactly one result per task of the list
\* (none for the empty list), and once resolved it stays as it is; when no
\* task rejects and every task settles, it eventually resolves.
PoolResolvesWithAllResults ==
    /\ []((PoolRuns /\ call.promise.state = "resolved")
            => /\ \A t \in DOMAIN call.phase : call.phase[t] = "done"
               /\ call.active = 0 /\ call.index = Len(call.tasks)
               /\ Len(call.promise.value) = Len(call.tasks)
               /\ \A i \in 1..Len(call.tasks) :
                    Occurrences(call.promise.value, call.tasks[i]) = 1)
    /\ [][(PoolRuns /\ call.promise.state = "resolved")
            => call' = call]_vars
    /\ PoolRuns ~> (PoolRuns /\ (call.promise.state = "resolved"
                                    \/ call.rejected # {}))

\* C22 witness: a list of three tasks under a limit of two has resolved with
\* three results, which came in another order than the list's
ResolvedOutOfListOrder ==
    /\ PoolRuns
    /\ call.promise.state = "resolved"
    /\ Len(call.tasks) = 3 /\ call.limit = 2
    /\ Len(call.promise.value) = 3
    /\ call.promise.value # call.tasks

StartedInListOrder ==
    /\ [](PoolRuns =>
            /\ Len(call.order) = call.index
            /\ \A i \in 1..Len(call.order) : call.order[i] = call.tasks[i]
            /\ \A t \in DOMAIN call.phase :
                 call.phase[t] = "queued" <=> t > call.index)
    /\ [][PoolRuns =>
            /\ Len(call'.order) >= Len(call.order)
            /\ SubSeq(call'.order, 1, Len(call.order)) = call.order]_vars

\* C28 witness: the second task finished before the first, and the third
\* task was then started, as last of the list
ThirdStartedAfterSecondFinished ==
    /\ PoolRuns
    /\ call.order = <<1, 2, 3>>
    /\ call.phase[2] = "done"
    /\ call.phase[1] = "running"
    /\ call.phase[3] = "running"

\* the tasks that hold a slot of the pool: started, and their finally has not
\* run yet
Occupying(c) == {t \in DOMAIN c.phase : c.phase[t] \notin {"queued", "done"}}

\* C29: the pool is work-conserving: after every call of schedule() either
\* limit tasks hold a slot or no factory is queued, and the finally of a task
\* that settled while factories were queued starts the next factory of the
\* list in the same step.
WorkConserving ==
    /\ [](PoolRuns =>
            /\ call.active = Cardinality(Occupying(call))
            /\ call.active = call.limit \/ call.index = Len(call.tasks))
    /\ [][PoolRuns =>
            \A t \in DOMAIN call.phase :
              (TaskFinally(t) /\ call.index < Len(call.tasks))
                => /\ call'.index = call.index + 1
                   /\ call'.order = Append(call.order, call.tasks[call.index + 1])
                   /\ call'.phase[call.tasks[call.index + 1]] = "running"
                   /\ call'.active = call.limit]_vars

\* C29 witness: under a limit of two the first task has finished while the
\* third was queued, and the third runs beside the second
SlotRefilled ==
    /\ PoolRuns
    /\ call.limit = 2 /\ Len(call.tasks) = 3
    /\ call.phase[1] = "done"
    /\ call.phase[2] = "running"
    /\ call.phase[3] = "running"
    /\ call.active = 2

----------------------------------------------------------------------------
(* Batch mode with several cities (route.ts lines 110-301)                 *)

NextBatch ==
    \/ \E cities \in BatchCityCounts, limit \in 1..MaxN :
         POST(NewId, "batch", limit, cities)
    \/ PostPersisted
    \/ \E ok \in BOOLEAN : Mkdir(ok)
    \/ InitPersisted
    \/ \E u \in BatchFailing, err \in {"start", "exit"} : WorkerFails(u, err)
    \/ \E u \in MonthUnits, veg \in VegValues, hasPreview \in Thumbnails :
         BatchUnitComplete(u, veg, hasPreview)
    \/ \E stats \in {"null", "stats"} : ChangeCollected(stats)
    \/ CityPersisted
    \/ FinalPersisted

SpecBatch == Init /\ [][NextBatch]_vars

CityUnits == MonthUnits \cup {ChangeUnit}

\* the batchSummaries of the job's snapshot; none before the first city update
SnapshotSummaries(job) ==
    IF "result" \in DOMAIN job /\ "batchSummaries" \in DOMAIN job.result
    THEN job.result.batchSummaries
    ELSE <<>>

\* C24: in batch mode the units of the next city are started only in a step
\* before which every unit of the current city (its months of both roles and
\* its change visualization) had settled and the city's summary was in the
\* job's snapshot; so while a unit runs, the summaries of exactly the
\* previous cities are in the snapshot.
CitiesStrictlySequential ==
    /\ [][(cfg.mode = "batch" /\ cityIdx >= 1 /\ cityIdx' # cityIdx)
            => /\ cityIdx' = cityIdx + 1
               /\ \A u \in CityUnits : Settled(u)
               /\ Len(summaries) = cityIdx
               /\ summaries[cityIdx].city = cityIdx
               /\ SnapshotSummaries(mem[Job]) = summaries]_vars
    /\ [][(cfg.mode = "batch" /\ cityIdx >= 1)
            => \A u \in CityUnits :
                 (~Running(u) /\ Running(u)')
                    => \/ cityIdx' = cityIdx
                       \/ \A v \in CityUnits : Settled(v)]_vars
    /\ []((cfg.mode = "batch" /\ \E u \in CityUnits : Running(u))
            => /\ Len(summaries) = cityIdx - 1
               /\ SnapshotSummaries(mem[Job]) = summaries)

\* C24 witness: units of the second city run; the first city's summary is in
\* the job's snapshot
SecondCityRunning ==
    /\ cfg.mode = "batch" /\ cfg.cities = 2
    /\ cityIdx = 2
    /\ \E u \in MonthUnits : Running(u)
    /\ \E u \in MonthUnits : Settled(u)
    /\ Len(SnapshotSummaries(mem[Job])) = 1
    /\ SnapshotSummaries(mem[Job])[1].city = 1

\* is list a the beginning of list b
IsPrefix(a, b) == Len(a) <= Len(b) /\ SubSeq(b, 1, Len(a)) = a

\* the number of cities whose units have all settled
CitiesFinished ==
    IF pc \in {"city_persist", "final_persist", "done"} /\ cityIdx >= 1
    THEN cityIdx
    ELSE Max(0, cityIdx - 1)

----------------------------------------------------------------------------
(* process/route.ts lines 565-575 and 610-626: the value of a PROGRESS line *)

\* the names in the switch statements of the two table functions
TableScripts == {"download_satellite_images.py",
                 "preprocess_satellite_images.py",
                 "vegetation_highlighter.py"}

\* the stdout handler of a worker running scriptName meets the line
\* PROGRESS:p and updates the job
ProgressLine(scriptName, p) ==
    /\ pc = "idle"
    /\ call = NoCall
    /\ call' = [op |-> "PROGRESS", scriptName |-> scriptName,
                scriptProgress |-> p,
                updates |-> ProgressPartial(scriptName, p)]
    /\ UNCHANGED <<mem, file, writes, created, resp, stream, driverVars>>

NextProgress ==
    \E scriptName \in Scripts \cup TableScripts, p \in 0..100 :
        ProgressLine(scriptName, p)

SpecProgress == Init /\ [][NextProgress]_vars

\* C26: for every line PROGRESS:p, p in 0..100, of a worker the driver runs,
\* the progress written to the job is p mapped into the interval of one of
\* the three stages: lo + p * (hi - lo) / 100, rounded.
ProgressThroughStageTable ==
    (call.op = "PROGRESS" /\ call.scriptName \in Scripts) =>
        \E st \in {[stage |-> "download", lo |-> 0, hi |-> 40],
                   [stage |-> "preprocess", lo |-> 40, hi |-> 70],
                   [stage |-> "analyze", lo |-> 70, hi |-> 100]} :
            call.updates.progress
              = MathRound(st.lo * 100 + call.scriptProgress * (st.hi - st.lo), 100)

----------------------------------------------------------------------------
(* process/route.ts lines 524-608: runPythonScript on its own              *)
(*                                                                         *)
(* The state of one call is kept in the variable call: the promise         *)
(* returned, the child process, the standard error captured so far, and    *)
(* how many times resolve or reject has been called.                       *)

ExitCodes == {0, 1, 2}          \* the code of the 'close' event
StderrChunks == {"a", "b"}      \* chunks the worker writes to standard error

NoProcess == [state |-> "none", code |-> 0]

\* lines 536-543: new Error('Python script not found ...') and its like
NotFoundError(what) == [kind |-> what, code |-> 0, stderr |-> <<>>]
\* line 598: new Error(`... failed with code ${code}: ${stderr}`)
ExitError(code, stderr) == [kind |-> "exit", code |-> code, stderr |-> stderr]
\* line 604: the error of the 'error' event
SpawnError == [kind |-> "spawn", code |-> 0, stderr |-> <<>>]
NoWorkerError == [kind |-> "", code |-> 0, stderr |-> <<>>]

\* resolve() and reject(e) of the promise of runPythonScript
Resolved == [state |-> "resolved", error |-> NoWorkerError]
Rejected(e) == [state |-> "rejected", error |-> e]

\* variant: the close handler resolves whatever the code
OnCloseResolves(c, code) ==
    [c EXCEPT !.process = [state |-> "closed", code |-> code],
              !.promise = settle(@, Resolved),
              !.settles = @ + 1]

\* lines 594-600: the handler of 'close'
OnClose(c, code) ==
    [c EXCEPT !.process = [state |-> "closed", code |-> code],
              !.promise = IF code = 0
                          THEN settle(@, Resolved)
                          ELSE settle(@, Rejected(ExitError(code, c.stderr))),
              !.settles = @ + 1]

\* lines 524-556: the call: the script or the interpreter is missing, or the
\* worker is spawned
RunPythonScript(scriptName, scriptExists, pythonExists) ==
    /\ pc = "idle"
    /\ call = NoCall
    /\ call' =
         LET c == [op |-> "runPythonScript", scriptName |-> scriptName,
                   process |-> NoProcess, stderr |-> <<>>,
                   promise |-> [state |-> "pending", error |-> NoWorkerError],
                   settles |-> 0]
         IN  IF ~scriptExists
             THEN [c EXCEPT !.promise = Rejected(NotFoundError("script")),
                            !.settles = 1]
             ELSE IF ~pythonExists
             THEN [c EXCEPT !.promise = Rejected(NotFoundError("python")),
                            !.settles = 1]
             ELSE [c EXCEPT !.process.state = "spawned"]
    /\ UNCHANGED <<mem, file, writes, created, resp, stream, driverVars>>

WorkerCalled == call # NoCall /\ call.op = "runPythonScript"

\* lines 588-592: a chunk of standard error arrives
StderrData(chunk) ==
    /\ WorkerCalled
    /\ call.process.state = "spawned"
    /\ Len(call.stderr) < MaxStderr
    /\ call' = [call EXCEPT !.stderr = Append(@, chunk)]
    /\ UNCHANGED <<mem, file, writes, created, resp, stream, driverVars>>

\* lines 602-605: 'error': the worker could not be started.  It has written
\* nothing, and 'close' may or may not follow.
ProcessError ==
    /\ WorkerCalled
    /\ call.process.state = "spawned"
    /\ call.stderr = <<>>
    /\ call' = [call EXCEPT !.process.state = "errored",
                            !.promise = settle(@, Rejected(SpawnError)),
                            !.settles = @ + 1]
    /\ UNCHANGED <<mem, file, writes, created, resp, stream, driverVars>>

\* lines 594-600: 'close': the worker has exited with the code, or, after
\* 'error', the process object is closed with a code that is not 0
ProcessClose(code) ==
    /\ WorkerCalled
    /\ \/ call.process.state = "spawned"
       \/ call.process.state = "errored" /\ code # 0
    /\ call' = OnClose(call, code)
    /\ UNCHANGED <<mem, file, writes, created, resp, stream, driverVars>>

NextWorker ==
    \/ \E scriptName \in Scripts, scriptExists \in BOOLEAN,
          pythonExists \in BOOLEAN :
         RunPythonScript(scriptName, scriptExists, pythonExists)
    \/ \E chunk \in StderrChunks : StderrData(chunk)
    \/ ProcessError
    \/ \E code \in ExitCodes : ProcessClose(code)

SpecWorker == Init /\ [][NextWorker]_vars

\* C27: the promise of a unit execution resolves exactly when the worker has
\* closed with code 0; it rejects when the script or the interpreter is
\* missing, when the worker could not be started, and when the worker closed
\* with another code, then with the standard error captured; once the worker
\* run is over the promise is settled, and a settled promise never changes.
WorkerSettlesOnce ==
    /\ [](WorkerCalled =>
            /\ call.promise.state = "resolved"
                 <=> (call.process.state = "closed" /\ call.process.code = 0)
            /\ (call.process.state = "closed" /\ call.process.code # 0)
                 => /\ call.promise.state = "rejected"
                    /\ call.promise.error.kind \in {"exit", "spawn"}
                    /\ call.promise.error.kind = "exit" =>
                         /\ call.promise.error.code = call.process.code
                         /\ call.promise.error.stderr = call.stderr
            /\ call.process.state = "errored"
                 => call.promise = Rejected(SpawnError)
            /\ call.process.state = "none"
                 => /\ call.promise.state = "rejected"
                    /\ call.promise.error.kind \in {"script", "python"}
            /\ call.promise.state = "pending"
                 <=> call.process.state = "spawned")
    /\ [][(WorkerCalled /\ call.promise.state # "pending")
            => call'.promise = call.promise]_vars

\* C27 witness: the worker wrote to standard error and closed with a
\* nonzero code; the promise is rejected with the code and what was captured
RejectedWithStderr ==
    /\ WorkerCalled
    /\ call.process.state = "closed" /\ call.process.code = 2
    /\ call.stderr = <<"a", "b">>
    /\ call.promise = Rejected(ExitError(2, <<"a", "b">>))
    /\ call.settles = 1

----------------------------------------------------------------------------
(* The previews of the months (route.ts lines 137-150 and 350-374)         *)

\* the previews list of the job's snapshot
SnapshotPreviews(job) ==
    IF "result" \in DOMAIN job /\ "previews" \in DOMAIN job.result
    THEN job.result.previews
    ELSE <<>>

\* the month units completed with a preview: of the job in annual mode, of
\* the current city in batch mode
Previewed == {u \in MonthUnits : unit[u].phase = "ok"}

\* the months of the job or city are running or its change step is
CollectingPreviews ==
    cfg.mode \in {"annual", "batch"} /\ pc \in {"annual", "batch", "change"}

\* the preview of a completed unit is missing from the job's snapshot
LostAppend ==
    /\ CollectingPreviews
    /\ \E u \in Previewed :
         \A i \in 1..Len(SnapshotPreviews(mem[Job])) :
            SnapshotPreviews(mem[Job])[i] # Preview(u, unit[u].veg)

\* the first two months of a role, started together under a limit of two or
\* more, have both completed
CompletedSideBySide ==
    /\ CollectingPreviews
    /\ cfg.limit >= 2
    /\ \E r \in Roles : unit[<<r, 1>>].phase = "ok" /\ unit[<<r, 2>>].phase = "ok"

----------------------------------------------------------------------------
(* The previews over the life of a job                                     *)

\* the previews of list a are all in list b
AllIn(a, b) == \A i \in 1..Len(a) : \E j \in 1..Len(b) : b[j] = a[i]

\* C31: while the job is not terminal, result.previews only grows: a
\* preview in the job's snapshot is in the snapshot after every update that
\* leaves the job non-terminal (progress updates, unit completions and the
\* per-city updates of batch mode).
PreviewsOnlyGrow ==
    [][(pc # "idle" /\ ~Terminal(mem'[Job].status))
          => AllIn(SnapshotPreviews(mem[Job]), SnapshotPreviews(mem'[Job]))]_vars

----------------------------------------------------------------------------
(* Annual comparison mode with differing monthly values (route.ts lines    *)
(* 303-466)                                                                *)

AnnualVegValues == {10, 30}      \* vegetation_percentage of a month

NextAnnual ==
    \/ \E limit \in 1..MaxN : POST(NewId, "annual", limit, 1)
    \/ PostPersisted
    \/ \E ok \in BOOLEAN : Mkdir(ok)
    \/ InitPersisted
    \/ \E u \in MonthUnits \cup {ChangeUnit}, err \in {"start", "exit"} :
         WorkerFails(u, err)
    \/ \E u \in MonthUnits, veg \in AnnualVegValues, hasPreview \in Thumbnails :
         AnnualUnitComplete(u, veg, hasPreview)
    \/ \E stats \in {"null", "stats"} : ChangeCollected(stats)
    \/ FinalPersisted

SpecAnnual == Init /\ [][NextAnnual]_vars

\* C32: in annual mode the completion of a unit writes to the job, in the
\* same step, the previews extended by the unit's preview and, as
\* result.vegetationPercentage, the mean of the values of the units of that
\* role completed so far.
RunningMeanWritten ==
    [][(pc = "annual" /\ completedMonths' = completedMonths + 1)
         => \E r \in Roles :
              /\ Len(monthly'[r]) = Len(monthly[r]) + 1
              /\ LET m == monthly'[r][Len(monthly'[r])]
                     vp == mem'[Job].result.vegetationPercentage
                 IN  /\ SnapshotPreviews(mem'[Job])
                          = Append(SnapshotPreviews(mem[Job]),
                                   Preview(<<r, m.month>>, m.veg))
                     /\ vp.sum * Len(monthly'[r])
                          = SumVeg(monthly'[r]) * vp.count]_vars

----------------------------------------------------------------------------
(* Single-range mode with any integer after PROGRESS: (route.ts lines      *)
(* 468-503 and 558-586)                                                    *)

\* integers matched by /PROGRESS:(\d+)/
PrintedIntegers == {0, 20, 50, 80, 100, 1000, 1005, 2000}

NextSingle ==
    \/ POST(NewId, "single", 1, 1)
    \/ PostPersisted
    \/ \E ok \in BOOLEAN : Mkdir(ok)
    \/ InitPersisted
    \/ \E p \in PrintedIntegers : WorkerOutput(SingleUnit, p)
    \/ \E p \in PrintedIntegers :
         HandlerNextLine("satellite_processor_fixed.py", p)
    \/ HandlerEnds("satellite_processor_fixed.py")
    \/ \E err \in {"start", "exit"} : WorkerFails(SingleUnit, err)
    \/ \E veg \in VegValues : SingleCollected(veg)
    \/ FinalPersisted

SpecSingle == Init /\ [][NextSingle]_vars

\* C33: the progress of every job is within 0..100 in every reachable
\* state, whatever integers the workers print after PROGRESS:.
ProgressWithinRange ==
    \A id \in JobIds : mem[id] # NoJob => mem[id].progress \in 0..100

----------------------------------------------------------------------------
(* Retention of jobs in the Registry (processing-store.ts lines 44-53)     *)
(*                                                                         *)
(* The clock of the process is kept in the variable call, in hours since   *)
(* the process started.  The entry points of the process are the request   *)
(* handlers and the drivers they start; nothing in the sources calls       *)
(* cleanupOldJobs or deleteProcessingJob, and there is no timer besides    *)
(* the sampling interval of a push stream.                                 *)

RetentionHours == 24      \* 24 * 60 * 60 * 1000 ms
ClockStep == 12           \* hours the clock advances in one step
MaxTicks == 3             \* steps of the clock followed

\* Date.now(), in hours
Now == IF "now" \in DOMAIN call THEN call.now ELSE 0

\* processing-store.ts lines 45-53
cleanupOldJobs(m, now) ==
    [id \in JobIds |->
        IF m[id] # NoJob /\ m[id].startTime.date < now - RetentionHours
        THEN NoJob ELSE m[id]]

\* time passes
ClockTick ==
    /\ Now < MaxTicks * ClockStep
    /\ call' = [op |-> "clock", now |-> Now + ClockStep]
    /\ UNCHANGED <<mem, file, writes, created, resp, stream, driverVars>>

\* route.ts lines 21-31: POST creates the job, startTime: new Date()
RetentionPOST(id) ==
    /\ id \notin created
    /\ mem' = setProcessingJob(mem, id,
                [InitialStatus(id) EXCEPT !.startTime = [date |-> Now]])
    /\ created' = created \cup {id}
    /\ UNCHANGED <<file, writes, resp, stream, call, driverVars>>

\* route.ts lines 68-72 and 509-514: the driver of the job updates it
RetentionUpdate(id, partial) ==
    /\ mem[id] # NoJob
    /\ ~Terminal(mem[id].status)
    /\ partial.status = "downloading" => mem[id].status = "pending"
    /\ mem' = updateProcessingJob(mem, id, partial)
    /\ UNCHANGED <<file, writes, created, resp, stream, call, driverVars>>

NextRetention ==
    \/ ClockTick
    \/ \E id \in JobIds : RetentionPOST(id)
    \/ \E id \in JobIds, partial \in {InitPartial, FailedPartial("exit")} :
         RetentionUpdate(id, partial)
    \/ \E id \in JobIds : GET(id)

\* time passes and the handlers and drivers of the process run
SpecRetention ==
    Init /\ [][NextRetention]_vars /\ WF_vars(ClockTick) /\ WF_vars(NextRetention)

\* the retention window of the job has elapsed: a sweep would remove it
Expired(id) == mem[id] # NoJob /\ cleanupOldJobs(mem, Now)[id] = NoJob

\* C34: every job is removed from the in-memory Registry after its
\* retention window (24 hours since its startTime) has elapsed.
ExpiredJobsCollected ==
    \A id \in JobIds : Expired(id) ~> (mem[id] = NoJob)

----------------------------------------------------------------------------
(* The status file of a terminal job, every write succeeding               *)

NextDurable ==
    \/ \E id \in JobIds : StorePOST(id)
    \/ \E id \in JobIds, partial \in DriverPartials : StoreUpdate(id, partial)
    \/ \E id \in JobIds, p \in ProgressInputs : StoreProgress(id, p)
    \/ \E id \in JobIds : \E w \in writes[id] : WriteSettles(id, w, TRUE)

SpecDurable == Init /\ [][NextDurable]_vars

\* C35: when a job is terminal and no write of its status file is in
\* flight, the file holds the terminal snapshot: a write started before the
\* terminal update never lands after the terminal write, so a reader of the
\* file never sees a terminal job as still running.
TerminalFileDurable ==
    \A id \in JobIds :
      (mem[id] # NoJob /\ Terminal(mem[id].status) /\ writes[id] = {})
        => /\ file[id] = Stringify(mem[id])
           /\ Terminal(file[id].status)

----------------------------------------------------------------------------
(* The monthly arrays of a batch summary (route.ts lines 86-108, 175-253)  *)

\* batch mode, one city, months of differing values
NextBatchMonths ==
    \/ \E limit \in 1..MaxN : POST(NewId, "batch", limit, 1)
    \/ PostPersisted
    \/ \E ok \in BOOLEAN : Mkdir(ok)
    \/ InitPersisted
    \/ \E u \in MonthUnits, veg \in AnnualVegValues, hasPreview \in Thumbnails :
         BatchUnitComplete(u, veg, hasPreview)
    \/ \E stats \in {"null", "stats"} : ChangeCollected(stats)
    \/ CityPersisted
    \/ FinalPersisted

SpecBatchMonths == Init /\ [][NextBatchMonths]_vars

\* C36: in the summary of a city, entry i of each monthly array is the
\* value of the unit for month i of that role (i counted from 1), whatever
\* order the month units completed in.
MonthlyArraysByMonth ==
    (cfg.mode = "batch" /\ pc = "city_persist") =>
        LET s == SnapshotSummaries(mem[Job])[cityIdx]
        IN  /\ Len(s.monthlyVegBaseline) = Months
            /\ Len(s.monthlyVegCompare) = Months
            /\ \A i \in 1..Months :
                 /\ s.monthlyVegBaseline[i] = unit[<<"baseline", i>>].veg
                 /\ s.monthlyVegCompare[i] = unit[<<"compare", i>>].veg

----------------------------------------------------------------------------
(* The fields of a snapshot by status                                      *)

\* C37: in every reachable state a completed job has progress 100, an
\* endTime and a result, a failed job has an endTime, and a job that is not
\* terminal has no endTime.
FieldsAgreeWithStatus ==
    \A id \in JobIds :
      mem[id] # NoJob =>
        /\ mem[id].status = "completed" =>
             /\ mem[id].progress = 100
             /\ "endTime" \in DOMAIN mem[id]
             /\ "result" \in DOMAIN mem[id]
        /\ mem[id].status = "failed" => "endTime" \in DOMAIN mem[id]
        /\ ~Terminal(mem[id].status) => "endTime" \notin DOMAIN mem[id]

----------------------------------------------------------------------------
(* Overlapping sampling ticks of a push stream (stream route lines 29-70)  *)
(*                                                                         *)
(* setInterval fires every 1500 ms whether or not the callback of the last *)
(* tick has returned: several callbacks can be suspended on their read of  *)
(* the status file.  The calls made on the controller are kept in the      *)
(* variable call: how many times close() went through, and whether the     *)
(* last callback called enqueue() or close() on a closed controller.       *)

MaxOverlap == 2           \* callbacks of the interval in flight at once

NoController == [op |-> "controller", closes |-> 0, onClosed |-> FALSE,
                 rejected |-> FALSE]
Controller == IF call = NoCall THEN NoController ELSE call

\* the callback's view of the stream: c.threw is set when a call has thrown
\* and the rest of the try block is skipped
CallbackStart ==
    [state |-> stream.state, lastSent |-> stream.lastSent, out |-> <<>>,
     closes |-> Controller.closes, threw |-> FALSE]

\* variant: a controller that takes chunks after close()
controllerEnqueueLenient(c, frame) ==
    IF c.threw THEN c ELSE [c EXCEPT !.out = Append(@, frame)]

\* controller.enqueue(chunk): a TypeError on a closed stream
controllerEnqueue(c, frame) ==
    IF c.threw THEN c
    ELSE IF c.state = "closed" THEN [c EXCEPT !.threw = TRUE]
    ELSE [c EXCEPT !.out = Append(@, frame)]

\* controller.close(): a TypeError on a closed stream
controllerClose(c) ==
    IF c.threw THEN c
    ELSE IF c.state = "closed" THEN [c EXCEPT !.threw = TRUE]
    ELSE [c EXCEPT !.state = "closed", !.closes = @ + 1]

\* stream route lines 40-46, on the callback's view
sendOn(c, payload) ==
    IF payload # c.lastSent
    THEN controllerEnqueue([c EXCEPT !.lastSent = payload], DataFrame(payload))
    ELSE c

\* stream route lines 55-65: the try block
TryBlock(c, payload) ==
    IF payload = NoPayload
    THEN controllerEnqueue(c, Comment(": no-status"))
    ELSE IF IsTerminalSample(payload)
    THEN controllerClose(controllerEnqueue(sendOn(c, payload),
                                           Comment(": closing")))
    ELSE sendOn(c, payload)

\* stream route lines 66-68: the catch block
CatchBlock(c) ==
    IF c.threw
    THEN controllerEnqueue([c EXCEPT !.threw = FALSE], Comment(": error"))
    ELSE c

\* setInterval fires: stream route lines 53-55 and 34-36
TickOverlapping ==
    /\ stream.state = "open"
    /\ Cardinality(stream.pending) < MaxOverlap
    /\ LET n == CHOOSE k \in 1..MaxOverlap :
                  \A t \in stream.pending : t.tick # k
       IN  stream' = [stream EXCEPT !.pending = @ \cup
                        {[tick |-> n,
                          inMemory |-> getProcessingJob(mem, stream.id)]}]
    /\ UNCHANGED <<mem, file, writes, created, resp, call, driverVars>>

\* stream route lines 55-68: the read of the status file returns and the
\* callback of the tick runs to its end
TickCallback(t) ==
    /\ stream.state \in {"open", "closed"}
    /\ t \in stream.pending
    /\ LET payload == snapshot(t.inMemory, file[stream.id])
           tried == TryBlock(CallbackStart, payload)
           c == CatchBlock(tried)
       IN  /\ stream' = [stream EXCEPT !.pending = @ \ {t},
                                       !.state = c.state,
                                       !.lastSent = c.lastSent,
                                       !.out = c.out,
                                       !.sample = payload]
           /\ call' = [op |-> "controller", closes |-> c.closes,
                       onClosed |-> tried.threw, rejected |-> c.threw]
    /\ UNCHANGED <<mem, file, writes, created, resp, driverVars>>

NextTicks ==
    \/ \E id \in StreamJobs : StorePOST(id)
    \/ \E id \in StreamJobs, partial \in DriverPartials : StoreUpdate(id, partial)
    \/ \E id \in StreamJobs, ok \in BOOLEAN :
         \E w \in writes[id] : WriteSettles(id, w, ok)
    \/ \E id \in StreamJobs : Subscribe(id)
    \/ InitialDelivered
    \/ TickOverlapping
    \/ \E t \in stream.pending : TickCallback(t)

SpecTicks == Init /\ [][NextTicks]_vars

----------------------------------------------------------------------------
(* Termination of a job (route.ts lines 58-108, 171-300, 338-394, 594-606) *)

\* a step of the driver of the job: an await of the file system settles, or
\* the worker of a unit exits (or cannot be started) and runPythonScript
\* settles, and the driver runs on to its next await.  The stdout handlers
\* are left out: they change neither the status nor the course of the
\* driver.
JobStep ==
    \/ PostPersisted
    \/ \E ok \in BOOLEAN : Mkdir(ok)
    \/ InitPersisted
    \/ \E u \in UnitIds, err \in {"start", "exit"} : WorkerFails(u, err)
    \/ \E u \in MonthUnits, veg \in VegValues, hasPreview \in Thumbnails :
         AnnualUnitComplete(u, veg, hasPreview)
    \/ \E u \in MonthUnits, veg \in VegValues, hasPreview \in Thumbnails :
         BatchUnitComplete(u, veg, hasPreview)
    \/ \E veg \in VegValues : SingleCollected(veg)
    \/ \E stats \in {"null", "stats"} : ChangeCollected(stats)
    \/ CityPersisted
    \/ FinalPersisted

NextJob ==
    \/ \E config \in Bodies, limit \in 1..MaxN : POSTRequest(config, limit)
    \/ JobStep

\* the process keeps running and every worker started exits: while the
\* driver awaits the file system or a worker, one of these settles
SpecJobLive == Init /\ [][NextJob]_vars /\ WF_vars(JobStep)

\* C39: provided the process keeps running and every worker started exits,
\* every job created reaches completed or failed, in every mode and for
\* every pattern of unit failures.
JobReachesTerminal ==
    (created # {}) ~> (\A id \in created : Terminal(mem[id].status))

\* C39 witness: a batch job in which the worker of every month and of the
\* change step failed has returned from processInBackground, completed
AllFailedJobTerminal ==
    /\ pc = "done"
    /\ cfg.mode = "batch"
    /\ \A u \in MonthUnits \cup {ChangeUnit} : unit[u].phase = "failed"
    /\ Terminal(mem[Job].status)

====
